---- MODULE Spec2Model ----
(***************************************************************************)
(* State-machine model of the submarine bridge simulator's authoritative   *)
(* simulation engine (sub-bridge/backend/sim).                             *)
(*                                                                         *)
(* Units.  Durations are integers in milliseconds, power fractions are     *)
(* integers in millionths, multipliers are integers in tenths.             *)
(*                                                                         *)
(* Simulation.tick(dt) and the step functions take the step length dt as   *)
(* an argument; the model draws it from DtSet.                             *)
(*                                                                         *)
(* The module holds one state space and several specifications.  Each      *)
(* specification drives one subsystem: its tick action is the part of      *)
(* Simulation.tick that reads or writes that subsystem, in the order of    *)
(* the code, together with the command handlers that write it.             *)
(***************************************************************************)
EXTENDS Integers, Sequences, FiniteSets, TLC

\* ------------------------------------------------------------------ bounds
NumTubes == 1           \* tubes modelled per ship (the suite has tube_count)
MantBits == 12          \* significand bits of the modelled floats (a double has 53)
MaxPos == 100           \* ticks are explored while ships are within MaxPos m of their start
MaxRange == 13000       \* ... or, in the sonar specification, within MaxRange m
MaxEvents == 2          \* accepted pings are explored while fewer events are queued
MaxTasks == 2           \* tasks spawn while a station holds fewer than MaxTasks
MaxJobs == 2            \* ticks are explored while they leave at most MaxJobs jobs in flight
MaxQueue == 2           \* max_queue of the subscriptions explored (subscribe's default is 100)
MaxFrames == 4          \* messages are published while fewer than MaxFrames were
MaxTorps == 1           \* test torpedoes are fired while fewer than MaxTorps are in the water

\* ------------------------------------------------------- program constants
torpedoes_stored_default == 6
reload_time_default == 45000
flood_time_default == 8000
doors_time_default == 3000
reactor_max_mw == 100
own_output_mw_default == 60
power_default == 250000
alloc_budget == 1000001
max_depth_default == 30000
own_max_speed == 30000
red_max_speed == 28000
red_output_mw == 50
turn_rate_default == 70
accel_max == 500
decel_max == 700
KNOTS_TO_MPS == 514
ping_cooldown_s == 12000
ping_range_m == 15000
first_task_delay_s == 30000
maint_spawn_scale == 10
ai_fleet_cadence_s == 45000
ai_fleet_alert_cadence_s == 20000
ai_ship_cadence_s == 20000
ai_ship_alert_cadence_s == 10000
alert_range_m == 7000
emcon_alert_s == 10000
emcon_high_timer == 0
run_dt == 50
depth_charge_cooldown_s == 2000
destroyer_depth_charges == 30
intent_default_speed == 18000

SecMs == 1000 * 1
One == 1000 * 1000      \* the fraction 1.0 in millionths

DegU == 256             \* heading: units per degree
DepthU == 100           \* depth: centimetres
SpeedU == 1000          \* speed: thousandths of a knot

\* Step lengths handed to tick(dt) / step_tubes(ship, dt).
DtSet == {0, 45 * SecMs, 600 * SecMs}

ShipIds == {"ownship", "red-01"}
Stations == {"helm", "weapons", "sonar", "engineering"}
Systems == {"rudder", "ballast", "sonar", "tubes"}
TubeIdx == 1..NumTubes
TubeArg == 0..NumTubes          \* "tube" payload values; 0 names no tube
Stages == {"task", "failing", "failed"}
TubeStates == {"Empty", "Loaded", "Flooded", "DoorsOpen"}
NoState == "None"

Max(a, b) == IF a >= b THEN a ELSE b
Min(a, b) == IF a <= b THEN a ELSE b

VARIABLES
    tubes,                    \* ship.weapons.tubes: [ShipIds -> [TubeIdx -> Tube]]
    torpedoes_stored,         \* ship.weapons.torpedoes_stored, per ship
    world_torpedoes,          \* number of torpedoes in world.torpedoes
    captain_consent,          \* Simulation._captain_consent
    tubes_ok,                 \* ownship.systems.tubes_ok
    time_penalty_multiplier,  \* ownship.weapons.time_penalty_multiplier, tenths
    wtimes,                   \* ownship reload_time_s / flood_time_s / doors_time_s
    power,                    \* ownship.power: [helm, weapons, sonar, engineering]
    output_mw,                \* ownship.reactor.output_mw
    damage_hull,              \* ownship.damage.hull, percent
    alloc_req,                \* payload of the last engineering.power.allocate
    kin,                      \* ship.kin: [ShipIds -> [x, y, depth, heading, speed]]
    ordered,                  \* Simulation.ordered: [heading, speed, depth]
    rudder_ok,                \* ownship.systems.rudder_ok
    ballast_ok,               \* ownship.systems.ballast_ok
    turn_rate_max,            \* ownship.hull.turn_rate_max, tenths of deg/s
    pump_fwd,                 \* Simulation._pump_fwd
    pump_aft,                 \* Simulation._pump_aft
    enemy_static,             \* CONFIG.enemy_static and not CONFIG.use_ai_orchestrator
    task_crew,                \* the station whose console sends station.task.start
    ping_timer,               \* Simulation.active_ping_state.timer
    transient_events,         \* Simulation._transient_events (the "type" of each)
    enemy_ship_contacts,      \* Simulation._enemy_ship_contacts: contacts held per RED ship
    ping_elapsed,             \* tick time summed since the last accepted ping
    ping_reset,               \* a world reset came after the last accepted ping
    active_tasks,             \* Simulation._active_tasks: [Stations -> Seq(task)]
    task_spawn_timers,        \* Simulation._task_spawn_timers, per station
    suppress_spawns,          \* Simulation._suppress_maintenance_spawns
    completed,                \* the tasks the last task step removed at progress 1.0
    levels,                   \* ownship.maintenance.levels, thousandths
    acoustics,                \* ownship.acoustics: the sonar penalty fields, tenths
    sonar_ok,                 \* ownship.systems.sonar_ok
    caps,                     \* ship.capabilities of the RED ships
    dc,                       \* depth_charges_stored / depth_charge_cooldown_timer_s, RED ships
    ship_engine_kind,         \* AgentsOrchestrator._ship_engine_kind
    ai_fleet_timer,           \* Simulation._ai_fleet_timer
    ai_ship_timers,           \* Simulation._ai_ship_timers (Never = no entry yet)
    conf_crossed,             \* Simulation._<ship>_conf_crossed and _fleet_conf_tripped
    ai_pending,               \* Simulation._ai_pending: the orchestrator jobs in flight
    fleet_intent,             \* Simulation._fleet_intent
    last_fleet_intent,        \* AgentsOrchestrator._last_fleet_intent
    recent_runs,              \* what the last operation appended to AgentsOrchestrator._recent_runs
    stop_set,                 \* Simulation._stop is set
    run_pc,                   \* where Simulation.run() stands
    call,                     \* the tool call the last job or ai.tool command handled
    run_gap,                  \* tick time since a RED ship's last scheduled run
    scheduled,                \* the ship runs the last tick scheduled
    since_trigger,            \* tick time since the last confidence trigger (Never = none yet)
    bus_queues,               \* BUS._topics[topic]: the queue of each subscriber, or Closed
    bus_sent,                 \* the number of messages published on the topic
    storage_ok,               \* whether a write to the database succeeds
    torp_armed,               \* how many torpedoes of the world are armed
    periscope_raised,         \* Simulation._periscope_raised
    radio_raised,             \* Simulation._radio_raised
    cmd_pc,                   \* where the handle_command in progress stands ("idle" = none)
    torps,                    \* world.torpedoes, in list order
    red_damage,               \* ship.damage of the other ships: [hull, flooding_rate]
    flooding_rate,            \* ownship.damage.flooding_rate, thousandths
    fuze,                     \* what step_torpedo did with each torpedo of the last tick
    depth_charges,            \* world.depth_charges of a world that carries the list
    blasts,                   \* what step_depth_charge did with each charge of the last tick
    sim_time_s,               \* self._sim_time_s (0 while the attribute is not set)
    delivered_comms_idx,      \* self._delivered_comms_idx
    captain_comms,            \* self._captain_comms (empty while the attribute is not set)
    elapsed,                  \* the time the ticks of the comms slice have simulated
    op,                       \* the operation that produced this state
    ret                       \* what that operation returned ("None" = accepted)

vars == <<tubes, torpedoes_stored, world_torpedoes, captain_consent, tubes_ok,
          time_penalty_multiplier, wtimes, power, output_mw, damage_hull,
          alloc_req, kin, ordered, rudder_ok, ballast_ok, turn_rate_max,
          pump_fwd, pump_aft, enemy_static, task_crew, ping_timer, transient_events,
          enemy_ship_contacts, ping_elapsed, ping_reset, active_tasks,
          task_spawn_timers, suppress_spawns, completed, levels, acoustics,
          sonar_ok, caps, dc, ship_engine_kind, ai_fleet_timer, ai_ship_timers,
          conf_crossed, ai_pending, fleet_intent, last_fleet_intent, recent_runs,
          stop_set, run_pc, call, run_gap, scheduled, since_trigger, bus_queues, bus_sent, storage_ok,
          torp_armed, periscope_raised, radio_raised, cmd_pc, torps, red_damage,
          flooding_rate, fuze, depth_charges, blasts, sim_time_s, delivered_comms_idx,
          captain_comms, elapsed, op, ret>>

\* Variable groups, for the frame conditions of the actions.
weaponVars == <<tubes, torpedoes_stored, world_torpedoes, captain_consent>>
weaponEnv == <<tubes_ok, time_penalty_multiplier, wtimes>>
powerVars == <<power, output_mw, damage_hull>>
reqVars == <<alloc_req>>
kinVars == <<kin, ordered>>
helmEnv == <<rudder_ok, ballast_ok, turn_rate_max, pump_fwd, pump_aft>>
configVars == <<enemy_static, task_crew>>
pingVars == <<ping_timer, ping_elapsed, ping_reset>>
eventVars == <<transient_events, enemy_ship_contacts>>
taskVars == <<active_tasks, task_spawn_timers, suppress_spawns, completed>>
maintVars == <<levels, acoustics, sonar_ok>>
shipCfgVars == <<caps, ship_engine_kind>>
schedVars == <<ai_fleet_timer, ai_ship_timers, conf_crossed>>
runVars == <<stop_set, run_pc>>
gapVars == <<run_gap, scheduled, since_trigger>>
busVars == <<bus_queues, bus_sent>>
storeVars == <<storage_ok, torp_armed>>
mastVars == <<periscope_raised, radio_raised>>
cmdVars == <<cmd_pc>>
commsVars == <<sim_time_s, delivered_comms_idx, captain_comms, elapsed>>
torpVars == <<torps, red_damage, flooding_rate, fuze, depth_charges, blasts, commsVars>>
orchRest == <<shipCfgVars, dc, schedVars, ai_pending, fleet_intent, last_fleet_intent,
              recent_runs, runVars, call, gapVars, busVars, storeVars>>
orchVars == <<orchRest, mastVars, cmdVars, torpVars>>
\* What the weapons handlers, the power handler, the helm handlers and the
\* sonar handler leave alone.
nonWeapon_but_store == <<powerVars, reqVars, kinVars, helmEnv, configVars, pingVars, eventVars,
                        taskVars, maintVars, shipCfgVars, dc, schedVars, ai_pending,
                        fleet_intent, last_fleet_intent, recent_runs, runVars, call, gapVars,
                        busVars, mastVars, cmdVars, torpVars>>
nonWeapon_but_torps == <<powerVars, reqVars, kinVars, helmEnv, configVars, orchRest,
                         mastVars, cmdVars, red_damage, flooding_rate, fuze, depth_charges,
                         blasts, commsVars, pingVars,
                         eventVars, taskVars, maintVars>>
nonWeapon == <<powerVars, reqVars, kinVars, helmEnv, configVars, orchVars, pingVars, eventVars,
               taskVars, maintVars>>
nonPower == <<weaponVars, weaponEnv, kinVars, helmEnv, configVars, orchVars, pingVars, eventVars,
              taskVars, maintVars>>
nonHelm == <<weaponVars, weaponEnv, powerVars, reqVars, configVars, orchVars, pingVars, eventVars,
             taskVars, maintVars>>
nonPing == <<weaponVars, weaponEnv, powerVars, reqVars, helmEnv, configVars, orchVars,
             taskVars, maintVars>>

\* ------------------------------------------------------------ construction
Tube0 == [state |-> "Empty", weapon |-> FALSE, timer_s |-> 0, next_state |-> NoState]

WTimes0 == [reload |-> reload_time_default, flood |-> flood_time_default,
            doors |-> doors_time_default]

\* A payload field is <<v>> when the key is present with value v and <<>>
\* when the key is absent.  NoPayload names no fraction.
Absent == <<>>
NoPayload == [helm |-> Absent, weapons |-> Absent, sonar |-> Absent,
              engineering |-> Absent]

Power0 == [helm |-> power_default, weapons |-> power_default,
           sonar |-> power_default, engineering |-> power_default]

Tubes0 == [s \in ShipIds |-> [i \in TubeIdx |-> Tube0]]
Stored0 == [s \in ShipIds |-> torpedoes_stored_default]

\* The weapons part of the world built by _init_default_world.
InitWeapons ==
    /\ tubes = Tubes0
    /\ torpedoes_stored = Stored0
    /\ world_torpedoes = 0
    /\ captain_consent = FALSE
    /\ tubes_ok = TRUE
    /\ time_penalty_multiplier = 10
    /\ wtimes = WTimes0

InitPower ==
    /\ power = Power0
    /\ output_mw = own_output_mw_default
    /\ damage_hull = 0

Own0 == [x |-> 0, y |-> 0, depth |-> 100 * DepthU, heading |-> 270 * DegU,
         speed |-> 8 * SpeedU]
Red0 == [x |-> 3000, y |-> 0, depth |-> 120 * DepthU, heading |-> 90 * DegU,
         speed |-> 8 * SpeedU]
Kin0 == [s \in ShipIds |-> IF s = "ownship" THEN Own0 ELSE Red0]
Ordered0 == [heading |-> Own0.heading, speed |-> Own0.speed, depth |-> Own0.depth]
RedIds == ShipIds \ {"ownship"}
NoContacts == [s \in RedIds |-> 0]
Never == 0 - 1

InitKin ==
    /\ kin = Kin0
    /\ ordered = Ordered0
    /\ rudder_ok = TRUE
    /\ ballast_ok = TRUE
    /\ turn_rate_max = turn_rate_default
    /\ pump_fwd = FALSE
    /\ pump_aft = FALSE

InitPing ==
    /\ ping_timer = 0
    /\ transient_events = <<>>
    /\ enemy_ship_contacts = NoContacts
    /\ ping_elapsed = Never
    /\ ping_reset = FALSE

NoTasks == [s \in Stations |-> <<>>]
SpawnTimers0 == [s \in Stations |-> first_task_delay_s]
NoneDone == [s \in Stations |-> {}]
Levels0 == [k \in Systems |-> 1000]
Acoustics0 == [bearing_noise_extra |-> 0, passive_snr_penalty_db |-> 0,
               active_range_noise_add_m |-> 0, active_bearing_noise_extra |-> 0]

InitTasks ==
    /\ active_tasks = NoTasks
    /\ task_spawn_timers = SpawnTimers0
    /\ suppress_spawns = FALSE
    /\ completed = NoneDone
    /\ levels = Levels0
    /\ acoustics = Acoustics0
    /\ sonar_ok = TRUE

\* ------------------------------------------------- orchestrator, data
\* The capabilities of the catalog's ship classes, and of a class whose
\* catalog entry switches navigation off (assets.load_ship_catalog takes the
\* flags from the catalog file).
SSNCaps == [can_set_nav |-> TRUE, has_torpedoes |-> TRUE, has_depth_charges |-> FALSE,
            countermeasures |-> TRUE]
ConvoyCaps == [can_set_nav |-> TRUE, has_torpedoes |-> FALSE, has_depth_charges |-> FALSE,
               countermeasures |-> FALSE]
DestroyerCaps == [can_set_nav |-> TRUE, has_torpedoes |-> FALSE, has_depth_charges |-> TRUE,
                  countermeasures |-> FALSE]
MooredCaps == [can_set_nav |-> FALSE, has_torpedoes |-> FALSE, has_depth_charges |-> FALSE,
               countermeasures |-> FALSE]
CapsSet == {SSNCaps, ConvoyCaps, DestroyerCaps, MooredCaps}

\* weapons.depth_charges_stored of a class: the Destroyer carries 30.
dc_stored_default(c) == IF c.has_depth_charges THEN destroyer_depth_charges ELSE 0

\* A FleetIntent as far as a ship reads it: whether it holds an objective for
\* the ship, the objective's "destination" (elems = the list's elements,
\* numeric = float() accepts them; an absent key has no elements) and its
\* "speed_kn" (<<v>>, or <<>> when float() rejects the value).
NoDest == [elems |-> <<>>, numeric |-> TRUE]
North == [elems |-> <<3000, 5000>>, numeric |-> TRUE]     \* due north of red-01
East == [elems |-> <<8000, 0>>, numeric |-> TRUE]          \* due east
OneElem == [elems |-> <<8000>>, numeric |-> TRUE]          \* one element
Words == [elems |-> <<8000, 0>>, numeric |-> FALSE]        \* two words
NoIntent == [set |-> FALSE, dest |-> NoDest, speed |-> <<>>]
IntentSet == {NoIntent,
              [set |-> TRUE, dest |-> NoDest, speed |-> <<12 * SpeedU>>],
              [set |-> TRUE, dest |-> North, speed |-> <<40 * SpeedU>>],
              [set |-> TRUE, dest |-> East, speed |-> <<>>],
              [set |-> TRUE, dest |-> OneElem, speed |-> <<12 * SpeedU>>],
              [set |-> TRUE, dest |-> Words, speed |-> <<12 * SpeedU>>]}

\* The arguments of a ship tool call: each key absent or with a value.
NoArgs == [heading |-> Absent, speed |-> Absent, depth |-> Absent, spreadSize |-> Absent]
NavArgs == [NoArgs EXCEPT !.heading = <<405 * DegU>>, !.speed = <<40 * SpeedU>>,
                          !.depth = <<400 * DepthU>>]
NavArgsSet == {NoArgs, NavArgs}
NoCall == [tool |-> "none", args |-> NoArgs]
\* The call the last job or ai.tool command handled: the ship, the tool the
\* engine (or the command) named and the call that was validated.
NoCallInfo == [sid |-> "none", reply |-> "none", validated |-> NoCall]
ShipToolNames == {"set_nav", "fire_torpedo", "deploy_countermeasure", "drop_depth_charges"}

\* What the ship engine can answer: a tool call (with or without the
\* "summary" text), or an exception (a timeout, a transport or parse error).
ShipReplies ==
    [kind : {"tool"}, tool : {"set_nav"}, args : NavArgsSet, summary : {TRUE}]
    \cup [kind : {"tool"}, tool : {"set_nav"}, args : {NoArgs}, summary : {FALSE}]
    \cup [kind : {"tool"}, tool : {"fire_torpedo", "deploy_countermeasure", "active_ping"},
          args : {NoArgs}, summary : {TRUE}]
    \cup [kind : {"tool"}, tool : {"drop_depth_charges"},
          args : {[NoArgs EXCEPT !.spreadSize = <<10>>]}, summary : {TRUE}]
    \cup [kind : {"exception"}, tool : {"none"}, args : {NoArgs}, summary : {FALSE}]

\* What the fleet engine can answer, after _normalize_intent: an intent with
\* an objective for every RED ship, or an exception.
FleetReplies ==
    [kind : {"intent"}, intent : IntentSet \ {NoIntent}]
    \cup [kind : {"exception"}, intent : {NoIntent}]

NoRuns == <<>>
NoTimers == [s \in RedIds |-> Never]
\* No RED ship has been scheduled yet, and the last tick scheduled none.
NoGaps == [s \in RedIds |-> [t |-> Never, alert |-> TRUE]]
NoneScheduled == [s \in RedIds |-> [ran |-> FALSE, gap |-> Never, alert |-> FALSE, dt |-> 0]]
NotCrossed == [crossed |-> [s \in RedIds |-> FALSE], tripped |-> FALSE]

\* The subscribers of one topic; a subscriber that is not subscribed has no
\* queue.
Subscribers == {"a", "b"}
Closed == <<0>>

\* BUS = AsyncTopicBroker(): no topic has a queue.
InitBus ==
    /\ bus_queues = [c \in Subscribers |-> Closed]
    /\ bus_sent = 0

\* Simulation.__init__: both masts are down.
InitMasts ==
    /\ periscope_raised = FALSE
    /\ radio_raised = FALSE

\* No command is being handled.
InitCmd == cmd_pc = "idle"

\* init_engine: the database takes writes; the world holds no torpedo.
InitStore ==
    /\ storage_ok = TRUE
    /\ torp_armed = 0

\* Simulation() without the orchestrator: the RED ship of the default world
\* is an SSN, and no orchestrator state exists.
InitNoOrch ==
    /\ caps = [s \in RedIds |-> SSNCaps]
    /\ dc = [s \in RedIds |-> [stored |-> 0, timer |-> 0]]
    /\ ship_engine_kind = "stub"
    /\ ai_fleet_timer = 0
    /\ ai_ship_timers = NoTimers
    /\ conf_crossed = NotCrossed
    /\ ai_pending = <<>>
    /\ fleet_intent = NoIntent
    /\ last_fleet_intent = NoIntent
    /\ recent_runs = NoRuns
    /\ stop_set = FALSE
    /\ run_pc = "idle"
    /\ call = NoCallInfo
    /\ run_gap = NoGaps
    /\ scheduled = NoneScheduled
    /\ since_trigger = Never
    /\ InitBus
    /\ InitStore
    /\ InitMasts
    /\ InitCmd

\* World() has an empty torpedo list; DamageState() is undamaged.
NoDamage == [s \in RedIds |-> [hull |-> 0, flooding_rate |-> 0]]

\* __init__: no message delivered; _sim_time_s and
\* _captain_comms are created by the comms handler.
InitComms ==
    /\ sim_time_s = 0
    /\ delivered_comms_idx = 0 - 1
    /\ captain_comms = <<>>
    /\ elapsed = 0

InitTorps ==
    /\ torps = <<>>
    /\ red_damage = NoDamage
    /\ flooding_rate = 0
    /\ fuze = <<>>
    /\ depth_charges = <<>>
    /\ blasts = <<>>
    /\ InitComms

InitRest ==
    /\ InitTorps
    /\ InitWeapons
    /\ InitPower
    /\ InitKin
    /\ InitPing
    /\ InitTasks
    /\ alloc_req = NoPayload
    /\ op = "init"
    /\ ret = "None"

\* Simulation() under the default configuration (ENEMY_STATIC on, no
\* orchestrator): the tick integrates ownship only.
Init ==
    /\ InitRest
    /\ InitNoOrch
    /\ enemy_static = TRUE
    /\ task_crew = "helm"

\* The same, with either the helm's or the weapons station's crew working on
\* its maintenance tasks.
InitCrews ==
    /\ InitRest
    /\ InitNoOrch
    /\ enemy_static = TRUE
    /\ task_crew \in {"helm", "weapons"}

\* ------------------------------------------------------------- weapons.py
\* step_tubes, for one tube: count the timer down and, when it reaches 0,
\* take the pending transition.
\* step_tube with the pending transition left in place at expiry.
step_tube_keeps_next(t, dt) ==
    IF t.timer_s > 0
    THEN LET left == Max(0, t.timer_s - dt) IN
         IF left = 0 /\ t.next_state # NoState
         THEN [t EXCEPT !.timer_s = 0, !.state = t.next_state]
         ELSE [t EXCEPT !.timer_s = left]
    ELSE t

\* step_tube taking the pending transition one step early.
step_tube_early(t, dt) ==
    IF t.timer_s > 0
    THEN LET left == Max(0, t.timer_s - dt) IN
         IF left <= dt /\ t.next_state # NoState
         THEN [t EXCEPT !.timer_s = left, !.state = t.next_state,
                        !.next_state = IF left = 0 THEN NoState ELSE @]
         ELSE [t EXCEPT !.timer_s = left]
    ELSE t

step_tube(t, dt) ==
    IF t.timer_s > 0
    THEN LET left == Max(0, t.timer_s - dt) IN
         IF left = 0 /\ t.next_state # NoState
         THEN [t EXCEPT !.timer_s = 0, !.state = t.next_state, !.next_state = NoState]
         ELSE [t EXCEPT !.timer_s = left]
    ELSE t

step_tubes(ts, dt) == [i \in TubeIdx |-> step_tube(ts[i], dt)]

\* timer = base * max(1.0, multiplier); the multiplier is held in tenths.
Penalized(base, mult) == (base * Max(10, mult)) \div 10

\* try_load_tube(ship, tube_idx): does the load start?
try_load_tube_ok(ts, stored, ok, idx) ==
    /\ ok
    /\ idx \in TubeIdx
    /\ ts[idx].state = "Empty"
    /\ stored > 0
    /\ ~(ts[idx].timer_s > 0)

try_load_tube(ts, idx, wt, mult) ==
    [ts EXCEPT ![idx] = [@ EXCEPT !.weapon = TRUE, !.next_state = "Loaded",
                                  !.timer_s = Penalized(wt.reload, mult)]]

try_flood_tube_ok(ts, ok, idx) ==
    /\ ok
    /\ idx \in TubeIdx
    /\ ts[idx].state = "Loaded"
    /\ ~(ts[idx].timer_s > 0)

try_flood_tube(ts, idx, wt, mult) ==
    [ts EXCEPT ![idx] = [@ EXCEPT !.next_state = "Flooded",
                                  !.timer_s = Penalized(wt.flood, mult)]]

\* try_set_doors: "open" / "close" when the request starts a transition,
\* "no" when it is refused.
try_set_doors_case(ts, ok, idx, open_state) ==
    IF ~ok \/ idx \notin TubeIdx THEN "no"
    ELSE IF ts[idx].timer_s > 0 THEN "no"
    ELSE IF open_state /\ ts[idx].state = "Flooded" THEN "open"
    ELSE IF ~open_state /\ ts[idx].state = "DoorsOpen" THEN "close"
    ELSE "no"

\* try_set_doors whose closing transition leads back to Loaded.
try_set_doors_close_to_loaded(ts, idx, open_state, wt, mult) ==
    IF open_state
    THEN [ts EXCEPT ![idx] = [@ EXCEPT !.next_state = "DoorsOpen",
                                       !.timer_s = Penalized(wt.doors, mult)]]
    ELSE [ts EXCEPT ![idx] = [@ EXCEPT !.next_state = "Loaded",
                                       !.timer_s = wt.doors]]

try_set_doors(ts, idx, open_state, wt, mult) ==
    IF open_state
    THEN [ts EXCEPT ![idx] = [@ EXCEPT !.next_state = "DoorsOpen",
                                       !.timer_s = Penalized(wt.doors, mult)]]
    ELSE [ts EXCEPT ![idx] = [@ EXCEPT !.next_state = "Flooded",
                                       !.timer_s = wt.doors]]

\* try_fire returns a torpedo iff the tube exists, is DoorsOpen and holds a
\* weapon; it does not look at timer_s.
try_fire_ok(ts, idx) ==
    /\ idx \in TubeIdx
    /\ ts[idx].state = "DoorsOpen"
    /\ ts[idx].weapon

try_fire(ts, idx) ==
    [ts EXCEPT ![idx] = [@ EXCEPT !.weapon = FALSE, !.state = "Empty",
                                  !.timer_s = 0, !.next_state = NoState]]

\* ------------------------------------------------------------- damage.py
\* step_engineering, tube timing: each time is base / max(0.2, share) /
\* damage_weapons_factor, where share = mw_weapons / max(1, max_mw).  The
\* share is held in thousandths and the damage factor in percent.
weapons_share(frac, out) ==
    LET total_mw == Max(0, Min(reactor_max_mw, out))
        mw_weapons == total_mw * Max(0, Min(One, frac))     \* MW, millionths
    IN (mw_weapons \div Max(1, reactor_max_mw)) \div 1000

damage_weapons_factor(hull) == Max(50, Max(30, 100 - hull))

eng_time(base, frac, out, hull) ==
    (((base * 1000) \div Max(200, weapons_share(frac, out))) * 100)
        \div damage_weapons_factor(hull)

step_engineering_times(frac, out, hull) ==
    [reload |-> eng_time(reload_time_default, frac, out, hull),
     flood  |-> eng_time(flood_time_default, frac, out, hull),
     doors  |-> eng_time(doors_time_default, frac, out, hull)]

\* ------------------------------------------------------ float arithmetic
\* kin.heading and the ordered heading are Python floats, and the heading
\* arithmetic of integrate_kinematics rounds after every operation.  A float
\* is modelled as an integer number of heading units whose magnitude has at
\* most MantBits significant bits; each operation rounds its exact result to
\* the nearest such number, ties to even.
RECURSIVE Pow2(_)
Pow2(n) == IF n = 0 THEN 1 ELSE 2 * Pow2(n - 1)

RECURSIVE BitLen(_)
BitLen(a) == IF a = 0 THEN 0 ELSE 1 + BitLen(a \div 2)

Abs(a) == IF a < 0 THEN 0 - a ELSE a

\* The spacing of the floats around a.
Ulp(a) == Pow2(Max(0, BitLen(Abs(a)) - MantBits))

\* Round-to-nearest, ties to even.
RoundEven(a) ==
    LET u == Ulp(a)
        m == Abs(a)
        q == m \div u
        r == m % u
        n == IF 2 * r > u \/ (2 * r = u /\ q % 2 = 1) THEN q + 1 ELSE q
    IN IF a < 0 THEN 0 - (n * u) ELSE n * u

\* C fmod: exact, with the sign of the dividend.
fmod(a, m) == IF a >= 0 THEN a % m ELSE 0 - ((0 - a) % m)

\* x % m for a Python float with m > 0 taking a negative remainder back by a
\* rounded addition of m.
float_mod(a, m) ==
    LET r == fmod(a, m) IN IF r < 0 THEN RoundEven(r + m) ELSE r

\* ------------------------------------------------------------- physics.py
clamp(v, lo, hi) == Max(lo, Min(hi, v))

\* rate * dt for a rate per second and dt in milliseconds.
ScaleDt(rate, dt) == rate * (dt \div SecMs) + (rate * (dt % SecMs)) \div SecMs

\* math.sin / math.cos of a heading, in thousandths, taken at whole degrees
\* by Bhaskara's rational approximation of the sine on [0, 180].
HalfWave(d) == (4000 * d * (180 - d)) \div (40500 - d * (180 - d))
SinMilli(d) == LET e == d % 360 IN IF e <= 180 THEN HalfWave(e) ELSE 0 - HalfWave(e - 180)
CosMilli(d) == SinMilli(d + 90)

\* max(0.1, 1.0 - damage.hull), percent.
hull_damage_factor(hull) == Max(10, 100 - hull)

\* dh = ((ordered_heading - kin.heading + 540) % 360) - 180
heading_error(oh, h) ==
    RoundEven(float_mod(RoundEven(RoundEven(oh - h) + 540 * DegU), 360 * DegU)
              - 180 * DegU)

\* kin.heading = (kin.heading + turn) % 360, with turn = 0.0 when the rudder
\* has failed and clamp(dh, -max_turn, max_turn) otherwise; rate is
\* hull.turn_rate_max in tenths of a degree per second.
next_heading(h, oh, rud_ok, rate, hull, dt) ==
    LET max_turn == RoundEven(ScaleDt((rate * DegU * Max(30, hull_damage_factor(hull)))
                                          \div 1000, dt))
        turn == IF ~rud_ok THEN 0 ELSE clamp(heading_error(oh, h), 0 - max_turn, max_turn)
    IN float_mod(RoundEven(h + turn), 360 * DegU)

\* kin.speed slews towards clamp(ordered_speed, 0, reactor_cap_speed).
next_speed(v, os, max_speed, out, max_mw, hull, dt) ==
    LET cap == (((max_speed * out) \div Max(1, max_mw)) * hull_damage_factor(hull)) \div 100
        target == clamp(os, 0, cap)
        f == Max(20, hull_damage_factor(hull))
    IN IF target > v
       THEN Min(target, v + ScaleDt((accel_max * f) \div 100, dt))
       ELSE Max(target, v - ScaleDt((decel_max * f) \div 100, dt))

\* kin.depth moves towards clamp(ordered_depth, 0, max_depth) at the ballast
\* rate and is clamped to [0, max_depth].
next_depth(z, od, bal_ok, boost, max_depth, hull, dt) ==
    LET base == IF bal_ok THEN (IF boost THEN 6 * DepthU ELSE 3 * DepthU)
                ELSE DepthU \div 2
        rate == (base * Max(30, hull_damage_factor(hull))) \div 100
        dz == clamp(od, 0, max_depth) - z
        step == clamp(dz, 0 - ScaleDt(rate, dt), ScaleDt(rate, dt))
    IN clamp(z + step, 0, max_depth)

\* Metres made good along one axis: trig (thousandths) * sog * dt.
advance(trig, v, dt) ==
    LET sog_mm == (v * KNOTS_TO_MPS) \div SpeedU          \* mm/s
    IN ScaleDt((trig * sog_mm) \div 1000, dt) \div 1000

\* integrate_kinematics(ship, ordered_heading, ordered_speed, ordered_depth,
\* dt, ballast_boost): the ship's kinematics after the step.  p carries the
\* ship's hull limits, reactor, hull damage and system flags.
integrate_kinematics(k, p, oh, os, od, dt, boost) ==
    LET v == next_speed(k.speed, os, p.max_speed, p.output_mw, p.max_mw, p.hull, dt)
        h == next_heading(k.heading, oh, p.rudder_ok, p.turn_rate_max, p.hull, dt)
        z == next_depth(k.depth, od, p.ballast_ok, boost, p.max_depth, p.hull, dt)
    IN [x |-> k.x + advance(SinMilli(h \div DegU), v, dt),
        y |-> k.y + advance(CosMilli(h \div DegU), v, dt),
        depth |-> z, heading |-> h, speed |-> v]

\* --------------------------------------------- loop.py, stage penalties
\* _apply_stage_penalties(ship, "weapons", stage): the timer multiplier.
weapons_stage_mult(stage) ==
    CASE stage = "task" -> 10
      [] stage = "failing" -> 14
      [] stage = "failed" -> 25

\* CONFIG.require_captain_consent (default)
require_captain_consent == TRUE

\* ------------------------------------------- loop.py, handle_command
own_tubes == tubes["ownship"]

\* weapons.tube.load
CmdTubeLoad(idx) ==
    LET ok == try_load_tube_ok(own_tubes, torpedoes_stored["ownship"], tubes_ok, idx) IN
    /\ tubes' = IF ok
                THEN [tubes EXCEPT !["ownship"] =
                         try_load_tube(own_tubes, idx, wtimes, time_penalty_multiplier)]
                ELSE tubes
    /\ torpedoes_stored' = IF ok THEN [torpedoes_stored EXCEPT !["ownship"] = @ - 1]
                           ELSE torpedoes_stored
    /\ ret' = IF ok THEN "None" ELSE "Cannot load"
    /\ op' = "weapons.tube.load"
    /\ UNCHANGED <<world_torpedoes, captain_consent, weaponEnv, nonWeapon>>

\* weapons.tube.flood
CmdTubeFlood(idx) ==
    LET ok == try_flood_tube_ok(own_tubes, tubes_ok, idx) IN
    /\ tubes' = IF ok
                THEN [tubes EXCEPT !["ownship"] =
                         try_flood_tube(own_tubes, idx, wtimes, time_penalty_multiplier)]
                ELSE tubes
    /\ ret' = IF ok THEN "None" ELSE "Cannot flood"
    /\ op' = "weapons.tube.flood"
    /\ UNCHANGED <<torpedoes_stored, world_torpedoes, captain_consent, weaponEnv, nonWeapon>>

\* weapons.tube.doors
CmdTubeDoors(idx, open_state) ==
    LET c == try_set_doors_case(own_tubes, tubes_ok, idx, open_state) IN
    /\ tubes' = IF c # "no"
                THEN [tubes EXCEPT !["ownship"] =
                         try_set_doors(own_tubes, idx, open_state, wtimes,
                                       time_penalty_multiplier)]
                ELSE tubes
    /\ ret' = IF c # "no" THEN "None" ELSE "Cannot set doors"
    /\ op' = "weapons.tube.doors"
    /\ UNCHANGED <<torpedoes_stored, world_torpedoes, captain_consent, weaponEnv, nonWeapon>>

\* The handler without the consent test.
CmdFire_without_consent(idx) ==
    LET ok == try_fire_ok(own_tubes, idx) IN
    /\ tubes' = IF ok THEN [tubes EXCEPT !["ownship"] = try_fire(own_tubes, idx)]
                ELSE tubes
    /\ world_torpedoes' = IF ok THEN world_torpedoes + 1 ELSE world_torpedoes
    /\ ret' = IF ok THEN "None" ELSE "Cannot fire"
    /\ op' = "weapons.fire"
    /\ UNCHANGED <<torpedoes_stored, captain_consent, weaponEnv, nonWeapon>>

\* weapons.fire
CmdFire(idx) ==
    LET refused == require_captain_consent /\ ~captain_consent
        ok == ~refused /\ try_fire_ok(own_tubes, idx)
    IN
    /\ tubes' = IF ok THEN [tubes EXCEPT !["ownship"] = try_fire(own_tubes, idx)]
                ELSE tubes
    /\ world_torpedoes' = IF ok THEN world_torpedoes + 1 ELSE world_torpedoes
    /\ ret' = IF refused THEN "Captain consent required"
              ELSE IF ok THEN "None" ELSE "Cannot fire"
    /\ op' = "weapons.fire"
    /\ UNCHANGED <<torpedoes_stored, captain_consent, weaponEnv, nonWeapon>>

\* captain.consent
CmdCaptainConsent(consent) ==
    /\ captain_consent' = consent
    /\ ret' = "None"
    /\ op' = "captain.consent"
    /\ UNCHANGED <<tubes, torpedoes_stored, world_torpedoes, weaponEnv, nonWeapon>>

\* debug.restart: _init_default_world builds a fresh default world.
RestartWeapons ==
    /\ tubes' = Tubes0
    /\ torpedoes_stored' = Stored0
    /\ world_torpedoes' = 0
    /\ captain_consent' = FALSE
    /\ tubes_ok' = TRUE
    /\ time_penalty_multiplier' = 10
    /\ wtimes' = WTimes0

RestartPower ==
    /\ power' = Power0
    /\ output_mw' = own_output_mw_default
    /\ damage_hull' = 0

\* The new ownship has default systems and hull; ordered is set from it and
\* the pumps are switched off.
RestartKin ==
    /\ kin' = Kin0
    /\ ordered' = Ordered0
    /\ rudder_ok' = TRUE
    /\ ballast_ok' = TRUE
    /\ turn_rate_max' = turn_rate_default
    /\ pump_fwd' = FALSE
    /\ pump_aft' = FALSE

\* active_ping_state is replaced by a fresh ActivePingState; the queued
\* events and the stored contacts are not touched.
RestartPing ==
    /\ ping_timer' = 0
    /\ ping_reset' = TRUE
    /\ UNCHANGED <<ping_elapsed, eventVars>>

\* Every station's task list is emptied and its spawn timer set back to the
\* first-task delay; the new ownship has full maintenance levels and default
\* acoustics and systems.  The spawn switch is not touched.
RestartTasks ==
    /\ active_tasks' = NoTasks
    /\ task_spawn_timers' = SpawnTimers0
    /\ completed' = NoneDone
    /\ levels' = Levels0
    /\ acoustics' = Acoustics0
    /\ sonar_ok' = TRUE
    /\ UNCHANGED suppress_spawns

\* The new World has no torpedoes, and its ships are undamaged.
RestartTorps ==
    /\ torps' = <<>>
    /\ red_damage' = NoDamage
    /\ flooding_rate' = 0
    /\ fuze' = <<>>
    /\ depth_charges' = <<>>
    /\ blasts' = <<>>
    /\ UNCHANGED commsVars

\* The masts are lowered.
RestartMasts ==
    /\ periscope_raised' = FALSE
    /\ radio_raised' = FALSE

\* debug.restart with the masts left as they are.
CmdRestart_keeps_masts ==
    /\ RestartWeapons
    /\ RestartPower
    /\ RestartKin
    /\ RestartPing
    /\ RestartTasks
    /\ RestartTorps
    /\ UNCHANGED <<reqVars, configVars, orchRest, mastVars, cmdVars>>
    /\ ret' = "None"
    /\ op' = "debug.restart"

CmdRestart ==
    /\ RestartWeapons
    /\ RestartPower
    /\ RestartKin
    /\ RestartPing
    /\ RestartTasks
    /\ RestartMasts
    /\ RestartTorps
    /\ UNCHANGED <<reqVars, configVars, orchRest, cmdVars>>
    /\ ret' = "None"
    /\ op' = "debug.restart"

\* ------------------------------------------------ loop.py, Simulation.tick
\* Simulation.tick reads an attribute that Ship does not declare right after
\* the ping cooldown step (loop.py 787), so every tick ends there with this
\* exception; the steps modelled below all come before it.
TickOutcome == "AttributeError"

\* The weapons part of a tick, in the order of the code: step_tubes for every
\* ship, then step_engineering (tube times, tubes_ok from the maintenance
\* level), then the stage penalties of the weapons station.  lvl_ok says
\* whether the tubes maintenance level is above 0.2 and worst is the worst
\* stage among the weapons station's tasks at this tick.
TickTubes(dt, lvl_ok, worst) ==
    /\ tubes' = [s \in ShipIds |-> step_tubes(tubes[s], dt)]
    /\ wtimes' = step_engineering_times(power.weapons, output_mw, damage_hull)
    /\ time_penalty_multiplier' = weapons_stage_mult(worst)
    /\ tubes_ok' = IF worst = "failed" THEN FALSE ELSE lvl_ok
    /\ ret' = TickOutcome
    /\ op' = "tick"
    /\ UNCHANGED <<torpedoes_stored, world_torpedoes, captain_consent, nonWeapon>>

NextTubes ==
    \/ \E i \in TubeArg : CmdTubeLoad(i)
    \/ \E i \in TubeArg : CmdTubeFlood(i)
    \/ \E i \in TubeArg, o \in BOOLEAN : CmdTubeDoors(i, o)
    \/ \E i \in TubeArg : CmdFire(i)
    \/ \E c \in BOOLEAN : CmdCaptainConsent(c)
    \/ CmdRestart
    \/ \E dt \in DtSet, l \in BOOLEAN, w \in Stages : TickTubes(dt, l, w)

SpecTubes == Init /\ [][NextTubes]_vars

\* ------------------------- loop.py, engineering.power.allocate

\* Fractions a payload may carry (millionths), and payloads: every station
\* key is either absent or carries one of them.
PayloadVals == {0 - 250000, 500000, 500001}
Payloads == [Stations -> {<<v>> : v \in PayloadVals} \cup {Absent}]

\* max(0.0, float(data.get(key, p.<key>))) without the clamp at 0.
alloc_value_unclamped(d, p, k) == IF d[k] = Absent THEN p[k] ELSE d[k][1]

\* max(0.0, float(data.get(key, p.<key>)))
alloc_value(d, p, k) == Max(0, IF d[k] = Absent THEN p[k] ELSE d[k][1])

alloc_values(d, p) == [k \in Stations |-> alloc_value(d, p, k)]

alloc_total(q) == q.helm + q.weapons + q.sonar + q.engineering

\* The handler with the assignments made ahead of the budget check.
CmdPowerAllocate_writes_first(d) ==
    LET q == alloc_values(d, power) IN
    /\ power' = q
    /\ ret' = IF alloc_total(q) > alloc_budget THEN "Allocation exceeds budget" ELSE "None"
    /\ alloc_req' = d
    /\ op' = "engineering.power.allocate"
    /\ UNCHANGED <<output_mw, damage_hull, nonPower>>

CmdPowerAllocate(d) ==
    LET q == alloc_values(d, power)
        rejected == alloc_total(q) > alloc_budget
    IN
    /\ power' = IF rejected THEN power ELSE q
    /\ ret' = IF rejected THEN "Allocation exceeds budget" ELSE "None"
    /\ alloc_req' = d
    /\ op' = "engineering.power.allocate"
    /\ UNCHANGED <<output_mw, damage_hull, nonPower>>

NextPower ==
    \/ \E d \in Payloads : CmdPowerAllocate(d)
    \/ CmdRestart

SpecPower == Init /\ [][NextPower]_vars

\* ------------------------------------------- loop.py, tick kinematics
OwnParams ==
    [max_speed |-> own_max_speed, output_mw |-> output_mw, max_mw |-> reactor_max_mw,
     hull |-> damage_hull, rudder_ok |-> rudder_ok, ballast_ok |-> ballast_ok,
     turn_rate_max |-> turn_rate_max, max_depth |-> max_depth_default]

RedParams ==
    [max_speed |-> red_max_speed, output_mw |-> red_output_mw, max_mw |-> reactor_max_mw,
     hull |-> 0, rudder_ok |-> TRUE, ballast_ok |-> TRUE,
     turn_rate_max |-> turn_rate_default, max_depth |-> max_depth_default]

\* Ownship follows the ordered setpoints; the other ships keep their own
\* heading, speed and depth and are skipped when the enemy is static.
tick_kinematics(dt) ==
    [s \in ShipIds |->
        IF s = "ownship"
        THEN integrate_kinematics(kin[s], OwnParams, ordered.heading, ordered.speed,
                                  ordered.depth, dt, pump_fwd \/ pump_aft)
        ELSE IF enemy_static THEN kin[s]
        ELSE integrate_kinematics(kin[s], RedParams, kin[s].heading, kin[s].speed,
                                  kin[s].depth, dt, FALSE)]

\* ------------------------------------------------- loop.py, helm.order
\* helm.order payloads: each key is absent or carries a value, a heading in
\* heading units, a speed and a depth, inside and outside the ship's limits.
HelmPayloads ==
    {[heading |-> <<0>>, speed |-> Absent, depth |-> Absent],
     [heading |-> <<90 * DegU>>, speed |-> Absent, depth |-> Absent],
     [heading |-> <<0 - 1>>, speed |-> Absent, depth |-> Absent],
     [heading |-> Absent, speed |-> <<0 - 5 * SpeedU>>, depth |-> <<0 - 10 * DepthU>>],
     [heading |-> Absent, speed |-> <<40 * SpeedU>>, depth |-> <<500 * DepthU>>]}

\* What step_engineering and the task step make of the helm in one tick:
\* is the rudder level above 0.2, and the worst stage of the helm tasks.
HelmConditions ==
    {<<TRUE, "task">>, <<TRUE, "failing">>, <<FALSE, "task">>, <<TRUE, "failed">>}

field(v, default) == IF v = Absent THEN default ELSE v[1]

\* helm.order: heading = float(...) % 360, speed = float(...),
\* depth = max(0.0, float(...)), each defaulting to the ordered value.
CmdHelmOrder(d) ==
    /\ ordered' = [heading |-> float_mod(RoundEven(field(d.heading, ordered.heading)),
                                         360 * DegU),
                   speed |-> field(d.speed, ordered.speed),
                   depth |-> Max(0, field(d.depth, ordered.depth))]
    /\ ret' = "None"
    /\ op' = "helm.order"
    /\ UNCHANGED <<kin, helmEnv, nonHelm>>

\* engineering.pump.toggle
CmdPumpToggle(name, state) ==
    /\ pump_fwd' = IF name = "fwd" THEN state ELSE pump_fwd
    /\ pump_aft' = IF name = "aft" THEN state ELSE pump_aft
    /\ ret' = "None"
    /\ op' = "engineering.pump.toggle"
    /\ UNCHANGED <<kinVars, rudder_ok, ballast_ok, turn_rate_max, nonHelm>>

\* _apply_stage_penalties(ship, "helm", stage): hull.turn_rate_max = 7.0 * factor
helm_stage_rate(stage) ==
    CASE stage = "task" -> turn_rate_default
      [] stage = "failing" -> (turn_rate_default * 7) \div 10
      [] stage = "failed" -> 0

\* debug.mission1: the RED ship becomes a slow surface contact 6 km east.
CmdMission1 ==
    /\ kin' = [s \in ShipIds |->
                 IF s \in RedIds
                 THEN [x |-> 6000, y |-> 0, depth |-> 3 * DepthU,
                       heading |-> 90 * DegU, speed |-> 5 * SpeedU]
                 ELSE kin[s]]
    /\ ret' = "None"
    /\ op' = "debug.mission1"
    /\ UNCHANGED <<ordered, nonPing, pingVars, eventVars>>

InBox(k, x0) == Abs(k.x - x0) <= MaxPos /\ Abs(k.y) <= MaxPos

\* Step lengths of the helm specification.
DtKin == {0, 23 * SecMs}

\* The helm part of a tick, in the order of the code: the kinematics, then
\* step_engineering (rudder_ok from the rudder maintenance level), then the
\* stage penalties of the helm station.  lvl_rudder says whether the rudder
\* level is above 0.2 and worst is the worst stage among the helm station's
\* tasks at this tick.
TickKin(dt, lvl_rudder, worst) ==
    /\ InBox(kin["ownship"], Own0.x)
    /\ \A s \in RedIds : InBox(kin[s], Red0.x) \/ InBox(kin[s], 6000)
    /\ kin' = tick_kinematics(dt)
    /\ turn_rate_max' = helm_stage_rate(worst)
    /\ rudder_ok' = IF worst = "failed" THEN FALSE ELSE lvl_rudder
    /\ ret' = TickOutcome
    /\ op' = "tick"
    /\ UNCHANGED <<ordered, ballast_ok, pump_fwd, pump_aft, nonHelm>>

NextKin ==
    \/ \E d \in HelmPayloads : CmdHelmOrder(d)
    \/ \E n \in {"fwd", "bilge"}, b \in BOOLEAN : CmdPumpToggle(n, b)
    \/ CmdRestart
    \/ \E dt \in DtKin, c \in HelmConditions : TickKin(dt, c[1], c[2])

SpecKin == Init /\ [][NextKin]_vars

\* ------------------------------------------------ sonar.py, ActivePingState
can_ping(timer) == timer <= 0

\* ActivePingState.tick
ping_tick(timer, dt) == IF timer > 0 THEN timer - dt ELSE timer

\* ------------------------------------------------- loop.py, sonar.ping
\* dist_m <= 15000.0 with dist_m = math.hypot(dx, dy)
in_ping_range(a, b) ==
    (a.x - b.x) * (a.x - b.x) + (a.y - b.y) * (a.y - b.y) <= ping_range_m * ping_range_m

\* The contacts a ping stores when every RED ship gets one.
ping_contacts_all(cs, k) == [s \in RedIds |-> cs[s] + 1]

\* The contacts a ping stores: one more for each RED ship in range.
ping_contacts(cs, k) ==
    [s \in RedIds |-> IF in_ping_range(k["ownship"], k[s]) THEN cs[s] + 1 ELSE cs[s]]

\* The handler with the cooldown restarted by every ping, accepted or not.
CmdSonarPing_restarts ==
    LET accepted == can_ping(ping_timer) IN
    /\ accepted => Len(transient_events) < MaxEvents
    /\ ping_timer' = ping_cooldown_s
    /\ enemy_ship_contacts' = IF accepted THEN ping_contacts(enemy_ship_contacts, kin)
                              ELSE enemy_ship_contacts
    /\ transient_events' = IF accepted THEN Append(transient_events, "counterDetected")
                           ELSE transient_events
    /\ ping_elapsed' = IF accepted THEN 0 ELSE ping_elapsed
    /\ ping_reset' = IF accepted THEN FALSE ELSE ping_reset
    /\ ret' = IF accepted THEN "None" ELSE "Ping on cooldown"
    /\ op' = "sonar.ping"
    /\ UNCHANGED <<kinVars, nonPing>>

\* sonar.ping
CmdSonarPing ==
    LET accepted == can_ping(ping_timer) IN
    /\ accepted => Len(transient_events) < MaxEvents
    /\ ping_timer' = IF accepted THEN ping_cooldown_s ELSE ping_timer
    /\ enemy_ship_contacts' = IF accepted THEN ping_contacts(enemy_ship_contacts, kin)
                              ELSE enemy_ship_contacts
    /\ transient_events' = IF accepted THEN Append(transient_events, "counterDetected")
                           ELSE transient_events
    /\ ping_elapsed' = IF accepted THEN 0 ELSE ping_elapsed
    /\ ping_reset' = IF accepted THEN FALSE ELSE ping_reset
    /\ ret' = IF accepted THEN "None" ELSE "Ping on cooldown"
    /\ op' = "sonar.ping"
    /\ UNCHANGED <<kinVars, nonPing>>

\* Step lengths of the sonar specification.
DtPing == {0, 6 * SecMs, 1200 * SecMs}

\* The kinematics and the ping cooldown of a tick.
TickPing(dt) ==
    /\ Abs(kin["ownship"].x) <= MaxRange
    /\ kin' = tick_kinematics(dt)
    /\ ping_timer' = ping_tick(ping_timer, dt)
    /\ ping_elapsed' = IF ping_elapsed = Never THEN Never
                       ELSE Min(ping_cooldown_s, ping_elapsed + dt)
    /\ ret' = TickOutcome
    /\ op' = "tick"
    /\ UNCHANGED <<ordered, ping_reset, eventVars, nonPing>>

NextPing ==
    \/ CmdSonarPing
    \/ CmdMission1
    \/ CmdRestart
    \/ \E dt \in DtPing : TickPing(dt)

SpecPing == Init /\ [][NextPing]_vars

\* ------------------------------------------- loop.py, maintenance tasks
\* Stations in the order of the _active_tasks dict, which is the order the
\* task step visits them in.
StationOrder == <<"helm", "sonar", "weapons", "engineering">>

\* Durations the random draws may give: base_deadline_s (uniform 25..45 s)
\* and the spawn gap (uniform 60..120 s).
DeadlineSet == {40 * SecMs}
SpawnGapSet == {60 * SecMs}

\* catalog: the systems a station's tasks service.
station_systems(station) ==
    CASE station = "helm" -> {"rudder", "ballast"}
      [] station = "sonar" -> {"sonar"}
      [] station = "weapons" -> {"tubes"}
      [] station = "engineering" -> {"ballast"}
      [] OTHER -> {"rudder"}

\* One draw of _spawn_task_for and of the next spawn gap.
SpawnChoices(station) ==
    [system : station_systems(station), deadline : DeadlineSet, gap : SpawnGapSet]

stage_rank(stage) ==
    CASE stage = "task" -> 0
      [] stage = "failing" -> 1
      [] stage = "failed" -> 2

\* The id string of a new task whose clock reading and random suffix no live
\* task of the list shares.  Ids are only ever compared for equality, so the
\* new id is named by the least number no live task of the list has.
spawn_id(ts) ==
    LET used == {ts[i].id : i \in 1..Len(ts)}
    IN CHOOSE n \in 1..(Len(ts) + 1) :
           n \notin used /\ \A m \in 1..(n - 1) : m \in used

\* The identity of a new task object: one no live task of the list has.
fresh_uid(ts) ==
    CHOOSE u \in 1..(Len(ts) + 1) : \A i \in 1..Len(ts) : ts[i].uid # u

\* One draw of _spawn_task_for in which the id repeats that of a live task:
\* the id is "<station>-<milliseconds of the clock modulo 100000>-<a random
\* number 100..999>", and nothing compares it with the ids in the list.
RepeatChoices(station) ==
    [system : station_systems(station), deadline : DeadlineSet, gap : SpawnGapSet,
     repeat : {TRUE}]

\* The id of the task the draw c adds to the list.
drawn_id(ts, c) ==
    IF "repeat" \in DOMAIN c /\ ts # <<>> THEN ts[Len(ts)].id ELSE spawn_id(ts)

\* _spawn_task_for: MaintenanceTask(stage="task", progress=0.0,
\* started=False, time_remaining_s=base_deadline) appended to the list.
spawn_task(ts, c) ==
    Append(ts, [uid |-> fresh_uid(ts), id |-> drawn_id(ts, c), system |-> c.system,
                stage |-> "task", progress |-> 0, started |-> FALSE,
                base_deadline_s |-> c.deadline, time_remaining_s |-> c.deadline])

\* _station_power_fraction
station_power_fraction(station) == Max(0, Min(One, power[station]))

\* A task that is dropped from the list the moment it reaches stage failed.
step_task_drops_failed(t, lv, frac, dt) ==
    LET tr == Max(0, t.time_remaining_s - dt)
        pr == IF t.started THEN Min(One, t.progress + ScaleDt(frac \div 5, dt))
              ELSE t.progress
    IN IF pr >= One
       THEN [kept |-> <<>>, done |-> {[uid |-> t.uid, stage |-> t.stage]},
             levels |-> [lv EXCEPT ![t.system] = Min(1000, @ + 100)]]
       ELSE IF tr <= 0 /\ t.stage = "task"
       THEN [kept |-> <<[t EXCEPT !.stage = "failing", !.progress = pr,
                                  !.base_deadline_s = (@ * 5) \div 4,
                                  !.time_remaining_s = (t.base_deadline_s * 5) \div 4]>>,
             done |-> {},
             levels |-> [lv EXCEPT ![t.system] = Max(0, @ - 50)]]
       ELSE IF tr <= 0 /\ t.stage = "failing"
       THEN [kept |-> <<>>, done |-> {},
             levels |-> [lv EXCEPT ![t.system] = Max(0, @ - 100)]]
       ELSE [kept |-> <<[t EXCEPT !.progress = pr, !.time_remaining_s = tr]>>,
             done |-> {}, levels |-> lv]

\* The body of the task loop of _step_station_tasks for one task: the
\* deadline runs down, a started task progresses by 0.2 * power_frac * dt, a
\* task at progress 1.0 is removed (its system's level + 0.1), and a task out
\* of time escalates task -> failing (deadline * 1.25, level - 0.05) ->
\* failed (level - 0.1).  kept is the task if it stays, done its identity
\* and stage if it completed.
step_task(t, lv, frac, dt) ==
    LET tr == Max(0, t.time_remaining_s - dt)
        pr == IF t.started THEN Min(One, t.progress + ScaleDt(frac \div 5, dt))
              ELSE t.progress
    IN IF pr >= One
       THEN [kept |-> <<>>, done |-> {[uid |-> t.uid, stage |-> t.stage]},
             levels |-> [lv EXCEPT ![t.system] = Min(1000, @ + 100)]]
       ELSE IF tr <= 0 /\ t.stage = "task"
       THEN [kept |-> <<[t EXCEPT !.stage = "failing", !.progress = pr,
                                  !.base_deadline_s = (@ * 5) \div 4,
                                  !.time_remaining_s = (t.base_deadline_s * 5) \div 4]>>,
             done |-> {},
             levels |-> [lv EXCEPT ![t.system] = Max(0, @ - 50)]]
       ELSE IF tr <= 0 /\ t.stage = "failing"
       THEN [kept |-> <<[t EXCEPT !.stage = "failed", !.progress = pr,
                                  !.time_remaining_s = tr]>>,
             done |-> {},
             levels |-> [lv EXCEPT ![t.system] = Max(0, @ - 100)]]
       ELSE [kept |-> <<[t EXCEPT !.progress = pr, !.time_remaining_s = tr]>>,
             done |-> {}, levels |-> lv]

\* The task loop over one station's list, in list order.
RECURSIVE step_task_list(_, _, _, _)
step_task_list(ts, lv, frac, dt) ==
    IF ts = <<>> THEN [tasks |-> <<>>, done |-> {}, levels |-> lv]
    ELSE LET r == step_task(Head(ts), lv, frac, dt)
             rest == step_task_list(Tail(ts), r.levels, frac, dt)
         IN [tasks |-> r.kept \o rest.tasks, done |-> r.done \cup rest.done,
             levels |-> rest.levels]

\* The task loop over the stations from the i-th on; at maps each station to
\* its list after the spawn step.
RECURSIVE step_stations(_, _, _, _)
step_stations(i, at, lv, dt) ==
    IF i > Len(StationOrder)
    THEN [tasks |-> at, done |-> [s \in Stations |-> {}], levels |-> lv]
    ELSE LET s == StationOrder[i]
             r == step_task_list(at[s], lv, station_power_fraction(s), dt)
             rest == step_stations(i + 1, at, r.levels, dt)
         IN [tasks |-> [rest.tasks EXCEPT ![s] = r.tasks],
             done |-> [rest.done EXCEPT ![s] = r.done],
             levels |-> rest.levels]

\* The stage of the last task of the list, whatever the others are at.
worst_stage_last(ts) ==
    IF ts = <<>> THEN "task" ELSE ts[Len(ts)].stage

\* _recompute_penalties_from_tasks: the worst stage among a station's tasks,
\* "task" when it has none.
worst_stage(ts) ==
    IF \E i \in 1..Len(ts) : ts[i].stage = "failed" THEN "failed"
    ELSE IF \E i \in 1..Len(ts) : ts[i].stage = "failing" THEN "failing"
    ELSE "task"

\* _apply_stage_penalties(ship, "sonar", stage): sonar.bearing_noise_extra
sonar_stage_extra(stage) ==
    CASE stage = "task" -> 0
      [] stage = "failing" -> 30
      [] stage = "failed" -> 120

\* _apply_stage_penalties(ship, "sonar", stage): bearing_noise_extra is set
\* for every stage, the other three only for failing and failed.
sonar_stage_penalties(ac, stage) ==
    CASE stage = "task" -> [ac EXCEPT !.bearing_noise_extra = sonar_stage_extra(stage)]
      [] stage = "failing" ->
            [bearing_noise_extra |-> sonar_stage_extra(stage), passive_snr_penalty_db |-> 30,
             active_range_noise_add_m |-> 500, active_bearing_noise_extra |-> 5]
      [] stage = "failed" ->
            [bearing_noise_extra |-> sonar_stage_extra(stage), passive_snr_penalty_db |-> 100,
             active_range_noise_add_m |-> 2500, active_bearing_noise_extra |-> 30]

\* damage.py, step_engineering: the sonar penalty fields each gain a term
\* that grows with hull damage (none on an undamaged hull).
eng_acoustics(ac) ==
    LET lost == 100 - Max(20, Max(10, 100 - damage_hull))
    IN [bearing_noise_extra |-> Max(0, ac.bearing_noise_extra + (lost * 50) \div 100),
        passive_snr_penalty_db |-> Max(0, ac.passive_snr_penalty_db + (lost * 150) \div 100),
        active_range_noise_add_m |->
            Max(0, ac.active_range_noise_add_m + (lost * 2000) \div 100),
        active_bearing_noise_extra |->
            Max(0, ac.active_bearing_noise_extra + (lost * 20) \div 100)]

\* damage.py, step_engineering: every maintenance level rises at
\* (mw_engineering / max_mw) * 0.1 per second while engineering gets more
\* than 0.1 MW and decays at 0.01 per second otherwise.
eng_levels(lv, dt) ==
    LET total_mw == Max(0, Min(reactor_max_mw, output_mw))
        mw_engineering == total_mw * Max(0, Min(One, power.engineering))
        prog_rate == (mw_engineering \div Max(1, reactor_max_mw)) \div 10000
    IN [k \in Systems |->
           IF mw_engineering > 100000
           THEN Min(1000, lv[k] + ScaleDt(prog_rate, dt))
           ELSE Max(0, lv[k] - ScaleDt(10, dt))]

\* Python's stable sort on (-stage_rank, time_remaining_s): a sorts before b.
sorts_before(a, b) ==
    \/ stage_rank(a.stage) > stage_rank(b.stage)
    \/ stage_rank(a.stage) = stage_rank(b.stage)
           /\ a.time_remaining_s < b.time_remaining_s

RECURSIVE sort_tasks(_)
sort_tasks(ts) ==
    IF Len(ts) <= 1 THEN ts
    ELSE LET i == CHOOSE k \in 1..Len(ts) :
                      /\ \A j \in 1..Len(ts) : ~sorts_before(ts[j], ts[k])
                      /\ \A j \in 1..(k - 1) : sorts_before(ts[k], ts[j])
         IN <<ts[i]>> \o sort_tasks(SubSeq(ts, 1, i - 1) \o SubSeq(ts, i + 1, Len(ts)))

\* A station that does not spawn makes no draw: it is given the first.
NoChoice(station) == CHOOSE c \in SpawnChoices(station) : TRUE

\* station.task.start payloads: the crew's station with a task_id that is
\* absent, the id of some task, or an id no task has; and a station name
\* that is no station's.
StartTaskIds == {Absent} \cup {<<i>> : i \in 0..MaxTasks}
StartPayloads ==
    {[station |-> task_crew, task_id |-> t] : t \in StartTaskIds}
        \cup {[station |-> "bridge", task_id |-> Absent]}

\* station.task.start: an empty list gets a task spawned first; with a
\* task_id every task with that id is started and every other one stopped
\* ("Unknown task" when none has it); without one the list is sorted most
\* urgent first and only its first task is started.
CmdTaskStart(station, task_id, c) ==
    /\ IF station \notin Stations
       THEN /\ ret' = "Unknown station"
            /\ c = NoChoice(station)
            /\ UNCHANGED active_tasks
       ELSE LET had == active_tasks[station]
                ts == IF had = <<>> THEN spawn_task(had, c) ELSE had
                byid == [i \in 1..Len(ts) |->
                            [ts[i] EXCEPT !.started = (ts[i].id = task_id[1])]]
                sorted == sort_tasks(ts)
                first == [i \in 1..Len(sorted) |->
                             [sorted[i] EXCEPT !.started = (i = 1)]]
            IN /\ (had # <<>>) => c = NoChoice(station)
               /\ IF task_id # Absent
                  THEN /\ active_tasks' = [active_tasks EXCEPT ![station] = byid]
                       /\ ret' = IF \E i \in 1..Len(ts) : ts[i].id = task_id[1]
                                 THEN "None" ELSE "Unknown task"
                  ELSE /\ active_tasks' = [active_tasks EXCEPT ![station] = first]
                       /\ ret' = "None"
    /\ op' = "station.task.start"
    /\ UNCHANGED <<task_spawn_timers, suppress_spawns, completed, maintVars,
                   weaponVars, weaponEnv, powerVars, reqVars, kinVars, helmEnv,
                   configVars, orchVars, pingVars, eventVars>>

\* debug.maintenance.spawns
CmdMaintenanceSpawns(enabled) ==
    /\ suppress_spawns' = ~enabled
    /\ ret' = "None"
    /\ op' = "debug.maintenance.spawns"
    /\ UNCHANGED <<active_tasks, task_spawn_timers, completed, maintVars,
                   weaponVars, weaponEnv, powerVars, reqVars, kinVars, helmEnv,
                   configVars, orchVars, pingVars, eventVars>>

DtTasks == {0, 30 * SecMs}

\* The maintenance part of a tick, in the order of the code: step_engineering
\* (tube times, sonar penalty fields, maintenance levels, the *_ok flags from
\* the levels), then _step_station_tasks: each station's spawn timer runs
\* down and a station whose timer is out gets a task (unless spawns are
\* suppressed) and a new timer, every task is stepped, and the penalties of
\* each station's worst stage are applied.  c holds the draws of each
\* station's spawn.
TickTasks(dt, c) ==
    LET lv == eng_levels(levels, dt)
        due(s) == task_spawn_timers[s] - dt <= 0
        spawned == [s \in Stations |->
                       IF due(s) /\ ~suppress_spawns
                       THEN spawn_task(active_tasks[s], c[s]) ELSE active_tasks[s]]
    IN \E r \in {step_stations(1, spawned, lv, dt)} :
       LET worst(s) == worst_stage(r.tasks[s]) IN
       /\ \A s \in Stations :
             /\ (due(s) /\ ~suppress_spawns) => Len(active_tasks[s]) < MaxTasks
             /\ ~due(s) => c[s] = NoChoice(s)
       /\ active_tasks' = r.tasks
       /\ task_spawn_timers' =
              [s \in Stations |->
                  IF due(s) THEN (c[s].gap * 10) \div Max(2, maint_spawn_scale)
                  ELSE task_spawn_timers[s] - dt]
       /\ completed' = r.done
       /\ levels' = r.levels
       /\ wtimes' = step_engineering_times(power.weapons, output_mw, damage_hull)
       /\ turn_rate_max' = helm_stage_rate(worst("helm"))
       /\ rudder_ok' = IF worst("helm") = "failed" THEN FALSE ELSE lv["rudder"] > 200
       /\ acoustics' = sonar_stage_penalties(eng_acoustics(acoustics), worst("sonar"))
       /\ sonar_ok' = IF worst("sonar") = "failed" THEN FALSE ELSE lv["sonar"] > 200
       /\ time_penalty_multiplier' = weapons_stage_mult(worst("weapons"))
       /\ tubes_ok' = IF worst("weapons") = "failed" THEN FALSE ELSE lv["tubes"] > 200
       /\ ballast_ok' = IF worst("engineering") = "failed" THEN FALSE
                        ELSE lv["ballast"] > 200
       /\ ret' = TickOutcome
       /\ op' = "tick"
       /\ UNCHANGED <<suppress_spawns, weaponVars, powerVars, reqVars, kinVars,
                      pump_fwd, pump_aft, configVars, orchVars, pingVars, eventVars>>

NextTasks ==
    \/ \E dt \in DtTasks :
           \E ch \in SpawnChoices("helm"), cs \in SpawnChoices("sonar"),
              cw \in SpawnChoices("weapons"), ce \in SpawnChoices("engineering") :
               TickTasks(dt, [s \in Stations |->
                                 CASE s = "helm" -> ch [] s = "sonar" -> cs
                                   [] s = "weapons" -> cw [] s = "engineering" -> ce])
    \/ \E d \in StartPayloads :
           \E c \in SpawnChoices(d.station) : CmdTaskStart(d.station, d.task_id, c)
    \/ \E b \in BOOLEAN : CmdMaintenanceSpawns(b)
    \/ CmdRestart

SpecTasks == InitCrews /\ [][NextTasks]_vars

\* The task slice with the sonar station's crew at work.
InitSonarCrew ==
    /\ InitRest
    /\ InitNoOrch
    /\ enemy_static = TRUE
    /\ task_crew = "sonar"

SpecSonarTasks == InitSonarCrew /\ [][NextTasks]_vars

\* ------------------------------- loop.py / ai_orchestrator.py, orchestrator
\* float(args.get(key) or current): an absent key and a zero both give the
\* current value.
arg_or(a, cur) == IF a = Absent \/ a[1] = 0 THEN cur ELSE a[1]

\* _ship_job, tool == "set_nav": heading modulo 360, speed clamped to
\* hull.max_speed, depth to hull.max_depth.
job_set_nav(k, a) ==
    [k EXCEPT !.heading = float_mod(arg_or(a.heading, k.heading), 360 * DegU),
              !.speed = clamp(arg_or(a.speed, k.speed), 0, red_max_speed),
              !.depth = clamp(arg_or(a.depth, k.depth), 0, max_depth_default)]

\* handle_command, ai.tool with tool == "set_nav": the speed has a floor only.
cmd_set_nav(k, a) ==
    [k EXCEPT !.heading = float_mod(arg_or(a.heading, k.heading), 360 * DegU),
              !.speed = Max(0, arg_or(a.speed, k.speed)),
              !.depth = clamp(arg_or(a.depth, k.depth), 0, max_depth_default)]

\* try_launch_torpedo_quick: refused without the capability or without
\* torpedoes; otherwise it takes one torpedo from the inventory and then
\* assigns weapons.torpedo_quick_cooldown_timer_s, a field WeaponsSuite does
\* not declare, which raises before the torpedo is returned.
try_launch_torpedo_quick(c, stored) ==
    IF ~c.has_torpedoes \/ stored <= 0
    THEN [ret |-> "refused", stored |-> stored]
    ELSE [ret |-> "ValueError", stored |-> stored - 1]

\* try_drop_depth_charges: refused without the capability, without charges
\* or while cooling down; otherwise it spends the charges and starts the
\* cooldown.
try_drop_depth_charges(c, d, n) ==
    IF ~c.has_depth_charges \/ d.stored <= 0 \/ d.timer > 0
    THEN [ok |-> FALSE, dc |-> d]
    ELSE [ok |-> TRUE,
          dc |-> [stored |-> d.stored - Max(1, Min(Min(n, 10), d.stored)),
                  timer |-> depth_charge_cooldown_s]]

\* int(float(n_val or 3))
spread_size(a) == IF a.spreadSize = Absent \/ a.spreadSize[1] = 0 THEN 3 ELSE a.spreadSize[1]

\* The for loop of _ship_job over the validated call c of ship sid: the
\* ship's kinematics and inventories after it and how the job ends.  A drop
\* that succeeds appends to world.depth_charges, which World does not have.
job_apply(sid, c) ==
    LET same == [kin |-> kin, stored |-> torpedoes_stored, dc |-> dc, ret |-> "None"] IN
    CASE c.tool = "set_nav" ->
            [same EXCEPT !.kin = [kin EXCEPT ![sid] = job_set_nav(@, c.args)]]
      [] c.tool = "fire_torpedo" ->
            IF ~caps[sid].has_torpedoes THEN same
            ELSE LET r == try_launch_torpedo_quick(caps[sid], torpedoes_stored[sid]) IN
                 [same EXCEPT !.stored = [torpedoes_stored EXCEPT ![sid] = r.stored],
                              !.ret = IF r.ret = "refused" THEN "None" ELSE r.ret]
      [] c.tool = "drop_depth_charges" ->
            IF ~caps[sid].has_depth_charges THEN same
            ELSE LET r == try_drop_depth_charges(caps[sid], dc[sid], spread_size(c.args)) IN
                 [same EXCEPT !.dc = [dc EXCEPT ![sid] = r.dc],
                              !.ret = IF r.ok THEN "AttributeError" ELSE "None"]
      [] OTHER -> same

\* math.degrees(math.atan2(dx, dy)) % 360.0 in heading units: the angle in
\* the first octant by the quadratic 45 t + 15.66 t (1 - t), t = a / b (exact
\* at the multiples of 45 degrees), folded into the eight octants.
octant(a, b) == (45 * DegU * a) \div b + (4009 * a * (b - a)) \div (b * b)
bearing(dx, dy) ==
    LET ax == Abs(dx)
        ay == Abs(dy)
        q == IF ax = 0 /\ ay = 0 THEN 0
             ELSE IF ax <= ay THEN octant(ax, ay) ELSE 90 * DegU - octant(ay, ax)
    IN CASE dx >= 0 /\ dy >= 0 -> q
         [] dx >= 0 /\ dy < 0 -> 180 * DegU - q
         [] dx < 0 /\ dy < 0 -> 180 * DegU + q
         [] OTHER -> (360 * DegU - q) % (360 * DegU)

\* _nav_from_intent(ship, ship_summary): nothing without an objective for
\* the ship, without a two-element destination or when float() rejects an
\* element; otherwise a set_nav towards the destination at the objective's
\* speed_kn (or min(max_speed, 18) when the ship is not alert), clamped to
\* the hull, at depth 0.
nav_from_intent(k, intent, alert) ==
    IF ~intent.set \/ Len(intent.dest.elems) # 2 \/ ~intent.dest.numeric THEN NoCall
    ELSE LET speed_kn == IF intent.speed # <<>> THEN intent.speed[1]
                         ELSE IF alert THEN red_max_speed
                         ELSE Min(red_max_speed, intent_default_speed)
         IN [tool |-> "set_nav",
             args |-> [NoArgs EXCEPT
                          !.heading = <<bearing(intent.dest.elems[1] - k.x,
                                                intent.dest.elems[2] - k.y)>>,
                          !.speed = <<clamp(speed_kn, 0, red_max_speed)>>,
                          !.depth = <<0>>]]

\* AgentsOrchestrator._ship_alert_map is written by the part of the tick
\* after the exception (loop.py 831-841), so a ship summary never carries an
\* alert.
summary_alert(sid) == FALSE

\* run_ship validating whatever tool the engine names.
run_ship_result_unchecked(sid, intent, r) ==
    IF r.kind = "exception"
    THEN [validated |-> NoCall, entry |-> [agent |-> "ship", ok |-> FALSE, source |-> "llm"]]
    ELSE [validated |-> [tool |-> r.tool, args |-> r.args],
          entry |-> [agent |-> "ship", ok |-> r.summary, source |-> "llm"]]

\* run_ship after the engine's answer r, for a summary that carries the
\* intent: the validated call and the recent-run entry.
run_ship_result(sid, intent, r) ==
    IF r.kind = "exception"
    THEN [validated |-> NoCall, entry |-> [agent |-> "ship", ok |-> FALSE, source |-> "llm"]]
    ELSE IF r.tool \notin ShipToolNames
    THEN LET nav == nav_from_intent(kin[sid], intent, summary_alert(sid)) IN
         [validated |-> nav,
          entry |-> [agent |-> "ship", ok |-> FALSE,
                     source |-> IF nav # NoCall THEN "intent_fallback" ELSE "none"]]
    ELSE [validated |-> [tool |-> r.tool, args |-> r.args],
          entry |-> [agent |-> "ship", ok |-> r.summary, source |-> "llm"]]

\* The policy result of run_ship under the stub engine.
stub_entry == [agent |-> "ship", ok |-> FALSE, source |-> "disabled_stub"]

\* A job of Simulation._ai_pending, in the order of creation: a fleet or a
\* ship job, not yet run ("created") or waiting for its engine ("awaiting",
\* with the FleetIntent its summary carries); at_stop marks the jobs that
\* were in flight when stop() was called.
NewJob(kind, sid) ==
    [kind |-> kind, sid |-> sid, pc |-> "created", intent |-> NoIntent, at_stop |-> FALSE]

Remove(seq, i) == [j \in 1..(Len(seq) - 1) |-> IF j < i THEN seq[j] ELSE seq[j + 1]]

\* What the job actions leave alone besides the world and the orchestrator.
nonOrch == <<tubes, world_torpedoes, captain_consent, weaponEnv, powerVars, reqVars,
             ordered, helmEnv, configVars, pingVars, eventVars, taskVars, maintVars,
             busVars, storeVars, mastVars, cmdVars, torpVars>>

\* _ship_job up to its first suspension with a run_ship that asks the engine
\* whatever its kind.
ShipJobStart_awaits_stub(i) ==
    /\ i \in DOMAIN ai_pending
    /\ ai_pending[i].kind = "ship" /\ ai_pending[i].pc = "created"
    /\ ai_pending' = [ai_pending EXCEPT ![i].pc = "awaiting", ![i].intent = last_fleet_intent]
    /\ recent_runs' = NoRuns
    /\ call' = [NoCallInfo EXCEPT !.sid = ai_pending[i].sid]
    /\ ret' = "None"
    /\ op' = "ship_job"
    /\ UNCHANGED <<kin, torpedoes_stored, dc, shipCfgVars, schedVars, gapVars, fleet_intent,
                   last_fleet_intent, runVars, nonOrch>>

\* _ship_job up to its first suspension: run_ship builds the summary and,
\* under the stub engine, records the policy result and returns no call, so
\* the job ends; otherwise the job waits for the engine.
ShipJobStart(i) ==
    /\ i \in DOMAIN ai_pending
    /\ ai_pending[i].kind = "ship" /\ ai_pending[i].pc = "created"
    /\ IF ship_engine_kind = "stub"
       THEN /\ ai_pending' = Remove(ai_pending, i)
            /\ recent_runs' = <<stub_entry>>
       ELSE /\ ai_pending' = [ai_pending EXCEPT ![i].pc = "awaiting",
                                                ![i].intent = last_fleet_intent]
            /\ recent_runs' = NoRuns
    /\ call' = [NoCallInfo EXCEPT !.sid = ai_pending[i].sid]
    /\ ret' = "None"
    /\ op' = "ship_job"
    /\ UNCHANGED <<kin, torpedoes_stored, dc, shipCfgVars, schedVars, gapVars, fleet_intent,
                   last_fleet_intent, runVars, nonOrch>>

\* _ship_job from the engine's answer r on: run_ship validates and records
\* the run, then the job applies the validated call to the ship and ends.
ShipJobReply(i, r) ==
    /\ i \in DOMAIN ai_pending
    /\ ai_pending[i].kind = "ship" /\ ai_pending[i].pc = "awaiting"
    /\ LET j == ai_pending[i]
           res == run_ship_result(j.sid, j.intent, r)
           ap == job_apply(j.sid, res.validated)
       IN /\ kin' = ap.kin
          /\ torpedoes_stored' = ap.stored
          /\ dc' = ap.dc
          /\ ret' = ap.ret
          /\ recent_runs' = <<res.entry>>
          /\ call' = [sid |-> j.sid, validated |-> res.validated,
                      reply |-> IF r.kind = "exception" THEN "exception" ELSE r.tool]
    /\ ai_pending' = Remove(ai_pending, i)
    /\ op' = "ship_job"
    /\ UNCHANGED <<shipCfgVars, schedVars, gapVars, fleet_intent, last_fleet_intent,
                   runVars, nonOrch>>

\* _fleet_job up to its suspension in run_fleet.
FleetJobStart(i) ==
    /\ i \in DOMAIN ai_pending
    /\ ai_pending[i].kind = "fleet" /\ ai_pending[i].pc = "created"
    /\ ai_pending' = [ai_pending EXCEPT ![i].pc = "awaiting"]
    /\ recent_runs' = NoRuns
    /\ call' = NoCallInfo
    /\ ret' = "None"
    /\ op' = "fleet_job"
    /\ UNCHANGED <<kin, torpedoes_stored, dc, shipCfgVars, schedVars, gapVars, fleet_intent,
                   last_fleet_intent, runVars, nonOrch>>

\* _fleet_job storing whatever run_fleet's result holds.
FleetJobReply_stores_any(i, r) ==
    /\ i \in DOMAIN ai_pending
    /\ ai_pending[i].kind = "fleet" /\ ai_pending[i].pc = "awaiting"
    /\ fleet_intent' = r.intent
    /\ last_fleet_intent' = r.intent
    /\ recent_runs' = <<[agent |-> "fleet", ok |-> r.kind = "intent", source |-> "llm"]>>
    /\ ai_pending' = Remove(ai_pending, i)
    /\ call' = [sid |-> "fleet",
                reply |-> IF r.kind = "intent" THEN "set_fleet_intent" ELSE "exception",
                validated |-> IF r.kind = "intent"
                              THEN [tool |-> "set_fleet_intent", args |-> NoArgs] ELSE NoCall]
    /\ ret' = "None"
    /\ op' = "fleet_job"
    /\ UNCHANGED <<kin, torpedoes_stored, dc, shipCfgVars, schedVars, gapVars, runVars,
                   nonOrch>>

\* _fleet_job from the engine's answer on: run_fleet records the run and the
\* job stores the validated set_fleet_intent in Simulation._fleet_intent and
\* in the orchestrator.
FleetJobReply(i, r) ==
    /\ i \in DOMAIN ai_pending
    /\ ai_pending[i].kind = "fleet" /\ ai_pending[i].pc = "awaiting"
    /\ fleet_intent' = IF r.kind = "intent" THEN r.intent ELSE fleet_intent
    /\ last_fleet_intent' = IF r.kind = "intent" THEN r.intent ELSE last_fleet_intent
    /\ recent_runs' = <<[agent |-> "fleet", ok |-> r.kind = "intent", source |-> "llm"]>>
    /\ ai_pending' = Remove(ai_pending, i)
    /\ call' = [sid |-> "fleet",
                reply |-> IF r.kind = "intent" THEN "set_fleet_intent" ELSE "exception",
                validated |-> IF r.kind = "intent"
                              THEN [tool |-> "set_fleet_intent", args |-> NoArgs] ELSE NoCall]
    /\ ret' = "None"
    /\ op' = "fleet_job"
    /\ UNCHANGED <<kin, torpedoes_stored, dc, shipCfgVars, schedVars, gapVars, runVars,
                   nonOrch>>

\* handle_command, ai.tool, for a RED ship or a ship the world does not hold.
AiToolTargets == RedIds \cup {"red-99"}
AiToolCalls ==
    [tool : {"set_nav"}, args : NavArgsSet]
    \cup [tool : {"fire_torpedo", "deploy_countermeasure", "active_ping"}, args : {NoArgs}]
    \cup [tool : {"drop_depth_charges"}, args : {[NoArgs EXCEPT !.spreadSize = <<10>>]}]

CmdAiTool(sid, c) ==
    LET known == sid \in RedIds
        cp == caps[sid]
        drop == try_drop_depth_charges(cp, dc[sid], spread_size(c.args))
    IN
    /\ kin' = IF known /\ c.tool = "set_nav" /\ cp.can_set_nav
              THEN [kin EXCEPT ![sid] = cmd_set_nav(@, c.args)] ELSE kin
    /\ dc' = IF known /\ c.tool = "drop_depth_charges" /\ cp.has_depth_charges
             THEN [dc EXCEPT ![sid] = drop.dc] ELSE dc
    /\ ret' = CASE ~known -> "Unknown ship"
                [] c.tool = "set_nav" ->
                     IF cp.can_set_nav THEN "None" ELSE "Tool not supported"
                [] c.tool = "fire_torpedo" ->
                     IF cp.has_torpedoes THEN "Not implemented for non-ownship"
                     ELSE "Tool not supported"
                [] c.tool = "deploy_countermeasure" ->
                     IF cp.countermeasures THEN "None" ELSE "Tool not supported"
                [] c.tool = "drop_depth_charges" ->
                     IF ~cp.has_depth_charges THEN "Tool not supported"
                     ELSE IF drop.ok THEN "AttributeError" ELSE "Drop refused"
                [] OTHER -> "Unknown tool"
    /\ call' = [sid |-> sid, reply |-> c.tool, validated |-> c]
    /\ recent_runs' = NoRuns
    /\ op' = "ai.tool"
    /\ UNCHANGED <<torpedoes_stored, shipCfgVars, schedVars, gapVars, ai_pending, fleet_intent,
                   last_fleet_intent, runVars, nonOrch>>

\* Simulation.stop(): the event is set; nothing else is touched.
Stop ==
    /\ stop_set' = TRUE
    /\ ai_pending' = [i \in DOMAIN ai_pending |-> [ai_pending[i] EXCEPT !.at_stop = TRUE]]
    /\ recent_runs' = NoRuns
    /\ call' = NoCallInfo
    /\ ret' = "None"
    /\ op' = "stop"
    /\ UNCHANGED <<kin, torpedoes_stored, dc, shipCfgVars, schedVars, gapVars, fleet_intent,
                   last_fleet_intent, run_pc, nonOrch>>

\* ------------------------------------- loop.py, tick: orchestrator scheduling
\* RED ships in the order of world.all_ships().
RedOrder == <<"red-01">>

\* self._ai_ship_timers[sid] after "+= dt"; a ship without an entry starts at
\* the normal cadence.
ship_timer(s, dt) ==
    (IF ai_ship_timers[s] = Never THEN ai_ship_cadence_s ELSE ai_ship_timers[s]) + dt

\* recent_active_ping or close_and_noisy
is_alert(s) ==
    \/ ping_timer > 0
    \/ /\ (kin[s].x - kin["ownship"].x) * (kin[s].x - kin["ownship"].x)
          + (kin[s].y - kin["ownship"].y) * (kin[s].y - kin["ownship"].y)
          <= alert_range_m * alert_range_m
       /\ emcon_high_timer >= emcon_alert_s

ship_cadence_normal(s) == ai_ship_cadence_s
ship_cadence(s) == IF is_alert(s) THEN ai_ship_alert_cadence_s ELSE ai_ship_cadence_s
ship_due(s, dt) == ship_timer(s, dt) >= ship_cadence(s)

\* The orchestrator part of a tick with the step length dt; trig[s] says
\* whether a passive contact of RED ship s has confidence >= 0.7 at this
\* tick.  A fleet job is created when the fleet timer reaches its cadence or
\* a ship crosses the confidence threshold for the first time, a ship job
\* when the ship's timer reaches its cadence.  Then the weapon cooldowns and
\* the ping cooldown are stepped.
TickOrchBody(dt, trig) ==
    LET ft == ai_fleet_timer + dt
        trigger_now == \E s \in RedIds : trig[s] /\ ~conf_crossed.crossed[s]
        chosen == IF trigger_now \/ conf_crossed.tripped
                  THEN ai_fleet_alert_cadence_s ELSE ai_fleet_cadence_s
        do_run_fleet == ft >= chosen \/ trigger_now
        due == SelectSeq(RedOrder, LAMBDA s : ship_due(s, dt))
        jobs == ai_pending
                \o (IF do_run_fleet THEN <<NewJob("fleet", "fleet")>> ELSE <<>>)
                \o [i \in 1..Len(due) |-> NewJob("ship", due[i])]
    IN
    /\ Len(jobs) <= MaxJobs
    /\ \A s \in RedIds : conf_crossed.crossed[s] => ~trig[s]
    /\ ai_fleet_timer' = IF do_run_fleet THEN 0 ELSE ft
    /\ conf_crossed' = [crossed |-> [s \in RedIds |-> conf_crossed.crossed[s] \/ trig[s]],
                        tripped |-> conf_crossed.tripped \/ trigger_now]
    /\ ai_ship_timers' = [s \in RedIds |-> IF ship_due(s, dt) THEN 0 ELSE ship_timer(s, dt)]
    /\ ai_pending' = jobs
    /\ run_gap' = [s \in RedIds |->
                     IF ship_due(s, dt) THEN [t |-> 0, alert |-> TRUE]
                     ELSE [t |-> IF run_gap[s].t = Never THEN Never ELSE run_gap[s].t + dt,
                           alert |-> run_gap[s].alert /\ is_alert(s)]]
    /\ scheduled' = [s \in RedIds |->
                       IF ship_due(s, dt)
                       THEN [ran |-> TRUE,
                             gap |-> IF run_gap[s].t = Never THEN Never ELSE run_gap[s].t + dt,
                             alert |-> run_gap[s].alert /\ is_alert(s), dt |-> dt]
                       ELSE [ran |-> FALSE, gap |-> Never, alert |-> FALSE, dt |-> dt]]
    /\ since_trigger' = IF trigger_now THEN 0
                        ELSE IF since_trigger = Never THEN Never
                        ELSE Min(since_trigger + dt, ai_fleet_alert_cadence_s + SecMs)
    /\ tubes' = [s \in ShipIds |-> step_tubes(tubes[s], dt)]
    /\ dc' = [s \in RedIds |-> [dc[s] EXCEPT !.timer = Max(0, @ - dt)]]
    /\ ping_timer' = ping_tick(ping_timer, dt)
    /\ ping_elapsed' = IF ping_elapsed = Never THEN Never
                       ELSE Min(ping_cooldown_s, ping_elapsed + dt)
    /\ recent_runs' = NoRuns
    /\ call' = NoCallInfo
    /\ ret' = TickOutcome
    /\ op' = "tick"
    /\ UNCHANGED <<torpedoes_stored, world_torpedoes, captain_consent, weaponEnv, powerVars,
                   reqVars, kinVars, helmEnv, configVars, ping_reset, eventVars, taskVars,
                   maintVars, shipCfgVars, fleet_intent, last_fleet_intent, busVars,
                   storeVars, mastVars, cmdVars, torpVars>>

\* Step lengths of the orchestrator specification, and the inputs of the
\* confidence trigger.
DtOrch == {4 * SecMs, 10 * SecMs}
TrigSet == [RedIds -> BOOLEAN]

\* A tick called on the simulation directly.
TickOrch(dt, trig) == TickOrchBody(dt, trig) /\ UNCHANGED runVars

\* ------------------------------------------------- loop.py, Simulation.run
\* run() is called: with the stop event set it returns at the loop test,
\* otherwise no time has passed since "last" and it sleeps.
RunCall ==
    /\ run_pc = "idle"
    /\ run_pc' = IF stop_set THEN "returned" ELSE "sleeping"
    /\ recent_runs' = NoRuns
    /\ call' = NoCallInfo
    /\ ret' = "None"
    /\ op' = "run"
    /\ UNCHANGED <<kin, torpedoes_stored, dc, shipCfgVars, schedVars, gapVars, ai_pending,
                   fleet_intent, last_fleet_intent, stop_set, nonOrch>>

\* The loop that ticks whether or not the stop event is set.
RunWake_ignores_stop ==
    /\ run_pc = "sleeping"
    /\ \E trig \in TrigSet : TickOrchBody(run_dt, trig)
    /\ run_pc' = "raised"
    /\ UNCHANGED stop_set

\* run() wakes from its sleep with the tick due: the loop test returns when
\* the stop event is set; otherwise tick(self.dt) runs, and its exception
\* ends run().
RunWake ==
    /\ run_pc = "sleeping"
    /\ IF stop_set
       THEN /\ run_pc' = "returned"
            /\ recent_runs' = NoRuns
            /\ call' = NoCallInfo
            /\ ret' = "None"
            /\ op' = "run"
            /\ UNCHANGED <<kin, torpedoes_stored, dc, shipCfgVars, schedVars, gapVars,
                           ai_pending, fleet_intent, last_fleet_intent, stop_set, nonOrch>>
       ELSE /\ \E trig \in TrigSet : TickOrchBody(run_dt, trig)
            /\ run_pc' = "raised"
            /\ UNCHANGED stop_set

\* Simulation() with the orchestrator switched on: the RED ship is of one of
\* the classes, the ship engine is the stub or a language model.
OrchConfigs == [kind : {"stub"}, caps : {SSNCaps}] \cup [kind : {"openai"}, caps : CapsSet]

InitOrchState ==
    /\ enemy_static = TRUE
    /\ task_crew = "helm"
    /\ \E c \in OrchConfigs :
          /\ ship_engine_kind = c.kind
          /\ caps = [s \in RedIds |-> c.caps]
          /\ dc = [s \in RedIds |-> [stored |-> dc_stored_default(c.caps), timer |-> 0]]
    /\ ai_fleet_timer = ai_fleet_cadence_s
    /\ ai_ship_timers = NoTimers
    /\ conf_crossed = NotCrossed
    /\ ai_pending = <<>>
    /\ fleet_intent = NoIntent
    /\ last_fleet_intent = NoIntent
    /\ recent_runs = NoRuns
    /\ stop_set = FALSE
    /\ run_pc = "idle"
    /\ call = NoCallInfo
    /\ run_gap = NoGaps
    /\ scheduled = NoneScheduled
    /\ since_trigger = Never
    /\ InitBus
    /\ InitStore
    /\ InitMasts
    /\ InitCmd

InitOrch == InitRest /\ InitOrchState

\* Ticks called with the ship engine left at the stub and the fleet engine
\* out of reach, the sonar station pinging: the cadence of the ship runs.
EngineDown == {r \in FleetReplies : r.kind = "exception"}

InitCadence == InitOrch /\ ship_engine_kind = "stub"

NextCadence ==
    \/ \E dt \in DtOrch, trig \in TrigSet : TickOrch(dt, trig)
    \/ CmdSonarPing
    \/ \E i \in 1..MaxJobs : ShipJobStart(i)
    \/ \E i \in 1..MaxJobs : FleetJobStart(i)
    \/ \E i \in 1..MaxJobs, r \in EngineDown : FleetJobReply(i, r)

SpecCadence == InitCadence /\ [][NextCadence]_vars

\* run() on the event loop, with the jobs its tick creates, the ai.tool
\* command and stop().  The event loop resumes run() when its sleep is over.
NextRun ==
    \/ RunCall
    \/ RunWake
    \/ Stop
    \/ \E i \in 1..MaxJobs : ShipJobStart(i)
    \/ \E i \in 1..MaxJobs, r \in ShipReplies : ShipJobReply(i, r)
    \/ \E i \in 1..MaxJobs : FleetJobStart(i)
    \/ \E i \in 1..MaxJobs, r \in FleetReplies : FleetJobReply(i, r)
    \/ \E sid \in AiToolTargets, c \in AiToolCalls : CmdAiTool(sid, c)

SpecRun == InitOrch /\ [][NextRun]_vars /\ WF_vars(RunWake)

\* debug.restart with the orchestrator switched on and a language-model ship
\* engine, up to its await: the orchestrator is replaced by a new one (which
\* has no FleetIntent yet) and the handler waits in health_check() for the
\* engine's answer.
RestartBegin ==
    /\ cmd_pc = "idle"
    /\ ship_engine_kind # "stub"
    /\ cmd_pc' = "health_check"
    /\ last_fleet_intent' = NoIntent
    /\ recent_runs' = NoRuns
    /\ call' = NoCallInfo
    /\ ret' = "awaiting"
    /\ op' = "debug.restart.health_check"
    /\ UNCHANGED <<weaponVars, weaponEnv, powerVars, reqVars, kinVars, helmEnv, configVars,
                   pingVars, eventVars, taskVars, maintVars, shipCfgVars, dc, schedVars,
                   ai_pending, fleet_intent, runVars, gapVars, busVars, storeVars, mastVars,
                   torpVars>>

\* debug.restart resumed with the health check's answer: _init_default_world().
RestartEnd ==
    /\ cmd_pc = "health_check"
    /\ cmd_pc' = "idle"
    /\ RestartWeapons
    /\ RestartPower
    /\ RestartKin
    /\ RestartPing
    /\ RestartTasks
    /\ RestartMasts
    /\ RestartTorps
    /\ UNCHANGED <<reqVars, configVars, orchRest>>
    /\ ret' = "None"
    /\ op' = "debug.restart"

\* run() and the jobs as in NextRun, with the restart command.
NextSerial ==
    \/ NextRun
    \/ RestartBegin
    \/ RestartEnd

SpecSerial == InitOrch /\ [][NextSerial]_vars

\* ------------------------------------- sonar.py, passive_contacts (RED)
\* 1000 * log10(n) for n >= 1: the table of the leading digit, interpolated
\* linearly over the next digit (within 0.03 of the logarithm).
Log10Digits == <<0, 301, 477, 602, 699, 778, 845, 903, 954, 1000>>
RECURSIVE log10_milli(_)
log10_milli(n) ==
    IF n >= 100 THEN 1000 + log10_milli(n \div 10)
    ELSE IF n >= 10
    THEN 1000 + Log10Digits[n \div 10]
         + ((Log10Digits[n \div 10 + 1] - Log10Digits[n \div 10]) * (n % 10)) \div 10
    ELSE Log10Digits[n]

\* angle_diff(a, b) in heading units
angle_diff(a, b) == ((a - b + 540 * DegU) % (360 * DegU)) - 180 * DegU

\* The source level of a target in tenths of a dB: the entry of
\* source_level_by_speed {5: 110, 10: 118, 15: 130} whose key is nearest to
\* the speed (the lower key on a tie), 6 dB more at or near the surface.
source_level(k) ==
    LET sp == Abs(k.speed)
        lvl == IF 2 * sp <= 15 * SpeedU THEN 1100
               ELSE IF 2 * sp <= 25 * SpeedU THEN 1180 ELSE 1300
    IN lvl + (IF k.depth <= 1 * DepthU THEN 60 ELSE 0)

\* snr_db in tenths of a dB for the listener at a and the target at b:
\* source level less 20 log10(range), the 4 dB of the layer and the 60 dB of
\* ambient noise; a RED listener carries no maintenance penalty.
passive_snr(a, b) ==
    LET r2 == (b.x - a.x) * (b.x - a.x) + (b.y - a.y) * (b.y - a.y) IN
    Max(0, source_level(b) - log10_milli(Max(1, r2)) \div 10 - 40 - 600)

\* detect in thousandths: snr_db / 30 within [0, 1]
passive_detect(a, b) == Max(0, Min(1000, (passive_snr(a, b) * 1000) \div 300))

\* The target is in the listener's baffles.
in_baffles(a, b) ==
    Abs(angle_diff(bearing(b.x - a.x, b.y - a.y), a.heading)) > 150 * DegU

\* _classify_ship_passive of ownship (an SSN)
classify_passive(det, snr) ==
    IF det >= 800 /\ snr >= 250 THEN "SSN"
    ELSE IF det >= 600 /\ snr >= 200 THEN "SSN?"
    ELSE IF det >= 400 /\ snr >= 150 THEN "Submarine?"
    ELSE "Unknown"

\* passive_contacts(ship, others) for RED ship sid of the world with the
\* kinematics k, the others being the BLUE ships: no contact for a target in
\* the baffles or with detect < 0.15; otherwise the contact as the summaries
\* carry it, numbers to one decimal (the bearing before its random error).
passive_contacts(sid, k) ==
    LET a == k[sid]
        b == k["ownship"]
    IN IF in_baffles(a, b) \/ passive_detect(a, b) < 150 THEN <<>>
       ELSE <<[id |-> "ownship", side |-> "BLUE",
               bearing |-> (bearing(b.x - a.x, b.y - a.y) * 10) \div DegU,
               class |-> classify_passive(passive_detect(a, b), passive_snr(a, b)),
               confidence |-> Min(1000, (passive_detect(a, b) * 12) \div 10) \div 100,
               detectability |-> passive_detect(a, b) \div 100]>>

\* ------------------------------- ai_orchestrator.py, the engines' summaries
\* AgentsOrchestrator._visual_detection_map is written by the part of the
\* tick after the exception (loop.py 976), so no observer holds a visual
\* detection.
visual_detected(sid, k) == FALSE

\* acoustics.last_detectability of RED ship sid were ownship's passive sonar
\* run on it (loop.py 828).
last_detectability_heard(sid, k) == passive_detect(k["ownship"], k[sid]) \div 100

\* acoustics.last_detectability of RED ship sid: passive_contacts writes it
\* on its targets, and a RED ship is a target at loop.py 828 only, after the
\* exception of the tick; the field keeps its default.
last_detectability(sid, k) == 0

\* The world-dependent part of the contacts of a summary.
summary_contacts(sid, k) ==
    IF visual_detected(sid, k)
    THEN <<[id |-> "ownship", side |-> "BLUE",
            bearing |-> (bearing(k["ownship"].x - k[sid].x, k["ownship"].y - k[sid].y) * 10)
                            \div DegU,
            class |-> "SSN", confidence |-> 7, detectability |-> 10]>>
    ELSE passive_contacts(sid, k)

\* _build_fleet_summary for the world with the kinematics k: the RED ships
\* with their detectability, the merged contacts, and the last FleetIntent.
\* (The mission brief, the run and contact histories and the last orders are
\* configuration and orchestrator memory.)
build_fleet_summary(k) ==
    [own_fleet |-> [s \in RedIds |->
                      [pos |-> <<k[s].x, k[s].y>>, depth |-> k[s].depth,
                       heading |-> k[s].heading, speed |-> k[s].speed,
                       ammo |-> torpedoes_stored[s],
                       noise |-> last_detectability(s, k),
                       capabilities |-> caps[s]]],
     enemy_belief |-> [s \in RedIds |-> summary_contacts(s, k)],
     fleet_intent_last |-> last_fleet_intent]

\* _build_ship_summary(ship) for RED ship sid.
build_ship_summary(sid, k) ==
    [self |-> [pos |-> <<k[sid].x, k[sid].y>>, depth |-> k[sid].depth,
               heading |-> k[sid].heading, speed |-> k[sid].speed],
     tubes |-> [i \in TubeIdx |-> tubes[sid][i].state],
     capabilities |-> caps[sid],
     contacts |-> summary_contacts(sid, k),
     fleet_intent |-> last_fleet_intent,
     detected_state |-> [alert |-> summary_alert(sid)]]

\* A mission that spawns ownship elsewhere (assets.apply_mission_to_world
\* takes the kinematics from the mission file): at the default position, and
\* near red-01, slow or fast, deep or at the surface.
BlueSpawns ==
    {Own0,
     [Own0 EXCEPT !.x = 2900],
     [Own0 EXCEPT !.x = 3000, !.y = 200],
     [Own0 EXCEPT !.x = 3000, !.y = 1000],
     [Own0 EXCEPT !.x = 3000, !.y = 1000, !.speed = 20 * SpeedU],
     [Own0 EXCEPT !.x = 3000, !.y = 1000, !.speed = 20 * SpeedU, !.depth = 0],
     [Own0 EXCEPT !.x = 3000, !.y = 2000, !.speed = 20 * SpeedU]}

InitMission(own) ==
    /\ InitWeapons
    /\ InitPower
    /\ kin = [Kin0 EXCEPT !["ownship"] = own]
    /\ ordered = [heading |-> own.heading, speed |-> own.speed, depth |-> own.depth]
    /\ rudder_ok = TRUE
    /\ ballast_ok = TRUE
    /\ turn_rate_max = turn_rate_default
    /\ pump_fwd = FALSE
    /\ pump_aft = FALSE
    /\ InitPing
    /\ InitTorps
    /\ InitTasks
    /\ alloc_req = NoPayload
    /\ op = "init"
    /\ ret = "None"

\* Simulation() with a mission, an SSN as the RED ship and language-model
\* engines.
InitSummary ==
    /\ \E own \in BlueSpawns : InitMission(own)
    /\ InitOrchState
    /\ ship_engine_kind = "openai"
    /\ caps = [s \in RedIds |-> SSNCaps]

SpecSummary == InitSummary /\ [][NextRun]_vars

\* -------------------------------------------------- bus.py, AsyncTopicBroker
nonBus == <<weaponVars, weaponEnv, powerVars, reqVars, kinVars, helmEnv, configVars, pingVars,
            eventVars, taskVars, maintVars, shipCfgVars, dc, schedVars, ai_pending, fleet_intent,
            last_fleet_intent, recent_runs, runVars, call, gapVars, storeVars, mastVars, cmdVars, torpVars>>

\* "if not q.full(): q.put_nowait(message)"
put_if_not_full(q, m) == IF Len(q) >= MaxQueue THEN q ELSE Append(q, m)

\* publish(topic, message): the message, numbered bus_sent + 1, is offered
\* to every queue of the topic.  The lock is held by no one across an await,
\* so publish runs to its end.
Publish ==
    /\ bus_sent < MaxFrames
    /\ bus_sent' = bus_sent + 1
    /\ bus_queues' = [c \in Subscribers |->
                         IF bus_queues[c] = Closed THEN Closed
                         ELSE put_if_not_full(bus_queues[c], bus_sent + 1)]
    /\ ret' = "None"
    /\ op' = "publish"
    /\ UNCHANGED nonBus

\* subscribe(topic, max_queue) up to its first queue.get(): an empty queue
\* joins the topic.
Subscribe(c) ==
    /\ bus_queues[c] = Closed
    /\ bus_queues' = [bus_queues EXCEPT ![c] = <<>>]
    /\ ret' = "None"
    /\ op' = "subscribe"
    /\ UNCHANGED <<bus_sent, nonBus>>

\* "message = await queue.get(); yield message"
Get(c) ==
    /\ bus_queues[c] # Closed /\ bus_queues[c] # <<>>
    /\ bus_queues' = [bus_queues EXCEPT ![c] = Tail(@)]
    /\ ret' = "None"
    /\ op' = "get"
    /\ UNCHANGED <<bus_sent, nonBus>>

\* The consumer closes the generator (app.py, fwd.cancel()): the finally
\* block takes the queue out of the topic.
Unsubscribe(c) ==
    /\ bus_queues[c] # Closed
    /\ bus_queues' = [bus_queues EXCEPT ![c] = Closed]
    /\ ret' = "None"
    /\ op' = "unsubscribe"
    /\ UNCHANGED <<bus_sent, nonBus>>

NextBus ==
    \/ Publish
    \/ \E c \in Subscribers : Subscribe(c)
    \/ \E c \in Subscribers : Get(c)
    \/ \E c \in Subscribers : Unsubscribe(c)

SpecBus == Init /\ [][NextBus]_vars

\* ------------------------------------- loop.py, tick: the torpedo events
\* The database starts or stops refusing writes (session.commit() raises).
StorageTurns(ok) ==
    /\ storage_ok' = ok
    /\ ret' = "None"
    /\ op' = "storage"
    /\ UNCHANGED <<torp_armed, weaponVars, weaponEnv, nonWeapon_but_store>>

\* The weapons part of a tick in which n of the unarmed torpedoes reach their
\* enable range (a torpedo runs for it, dt > 0): step_tubes, then step_torpedo
\* arms each of them and reports
\* "torpedo.armed" through insert_event, whose exception ends the tick at
\* the first of them; then step_engineering and the task penalties as in
\* TickTubes.
TickStore(dt, n, lvl_ok, worst) ==
    LET fails == n > 0 /\ ~storage_ok IN
    /\ n <= world_torpedoes - torp_armed
    /\ n > 0 => dt > 0
    /\ tubes' = [s \in ShipIds |-> step_tubes(tubes[s], dt)]
    /\ torp_armed' = IF fails THEN torp_armed + 1 ELSE torp_armed + n
    /\ wtimes' = IF fails THEN wtimes
                  ELSE step_engineering_times(power.weapons, output_mw, damage_hull)
    /\ time_penalty_multiplier' = IF fails THEN time_penalty_multiplier
                                   ELSE weapons_stage_mult(worst)
    /\ tubes_ok' = IF fails THEN tubes_ok ELSE IF worst = "failed" THEN FALSE ELSE lvl_ok
    /\ ret' = IF fails THEN "OperationalError" ELSE TickOutcome
    /\ op' = "tick"
    /\ UNCHANGED <<torpedoes_stored, world_torpedoes, captain_consent, storage_ok,
                   nonWeapon_but_store>>

\* The ticks explored find the tubes maintained and no weapons task beyond
\* its first stage.
NextStore ==
    \/ \E i \in TubeArg : CmdTubeLoad(i)
    \/ \E i \in TubeArg : CmdTubeFlood(i)
    \/ \E i \in TubeArg, o \in BOOLEAN : CmdTubeDoors(i, o)
    \/ \E i \in TubeArg : CmdFire(i)
    \/ \E c \in BOOLEAN : CmdCaptainConsent(c)
    \/ \E ok \in BOOLEAN : StorageTurns(ok)
    \/ \E dt \in DtSet, n \in 0..1 : TickStore(dt, n, TRUE, "task")

SpecStore == Init /\ [][NextStore]_vars

\* ------------------------------------ loop.py, handle_command: the masts
\* captain.periscope.raise and captain.radio.raise
CmdMastRaise(mast, raised) ==
    /\ periscope_raised' = IF mast = "periscope" THEN raised ELSE periscope_raised
    /\ radio_raised' = IF mast = "radio" THEN raised ELSE radio_raised
    /\ ret' = "None"
    /\ op' = "captain." \o mast \o ".raise"
    /\ UNCHANGED <<weaponVars, weaponEnv, powerVars, reqVars, kinVars, helmEnv, configVars,
                   pingVars, eventVars, taskVars, maintVars, orchRest, cmdVars, torpVars>>

\* The tick up to the line at which it raises, with the default
\* configuration: the kinematics, step_tubes, then step_engineering and
\* _step_station_tasks as in TickTasks, then the ping cooldown.  Ticks are
\* explored while ownship is within 4 MaxPos of its start.
TickWorld(dt, c) ==
    LET lv == eng_levels(levels, dt)
        due(s) == task_spawn_timers[s] - dt <= 0
        spawned == [s \in Stations |->
                       IF due(s) /\ ~suppress_spawns
                       THEN spawn_task(active_tasks[s], c[s]) ELSE active_tasks[s]]
    IN \E r \in {step_stations(1, spawned, lv, dt)} :
       LET worst(s) == worst_stage(r.tasks[s]) IN
       /\ \A s \in Stations :
             /\ (due(s) /\ ~suppress_spawns) => Len(active_tasks[s]) < MaxTasks
             /\ ~due(s) => c[s] = NoChoice(s)
       /\ active_tasks' = r.tasks
       /\ task_spawn_timers' =
              [s \in Stations |->
                  IF due(s) THEN (c[s].gap * 10) \div Max(2, maint_spawn_scale)
                  ELSE task_spawn_timers[s] - dt]
       /\ completed' = r.done
       /\ levels' = r.levels
       /\ wtimes' = step_engineering_times(power.weapons, output_mw, damage_hull)
       /\ turn_rate_max' = helm_stage_rate(worst("helm"))
       /\ rudder_ok' = IF worst("helm") = "failed" THEN FALSE ELSE lv["rudder"] > 200
       /\ acoustics' = sonar_stage_penalties(eng_acoustics(acoustics), worst("sonar"))
       /\ sonar_ok' = IF worst("sonar") = "failed" THEN FALSE ELSE lv["sonar"] > 200
       /\ time_penalty_multiplier' = weapons_stage_mult(worst("weapons"))
       /\ tubes_ok' = IF worst("weapons") = "failed" THEN FALSE ELSE lv["tubes"] > 200
       /\ ballast_ok' = IF worst("engineering") = "failed" THEN FALSE
                        ELSE lv["ballast"] > 200
       /\ ret' = TickOutcome
       /\ op' = "tick"
       /\ Abs(kin["ownship"].x) <= 3 * MaxPos
       /\ kin' = tick_kinematics(dt)
       /\ tubes' = [s \in ShipIds |-> step_tubes(tubes[s], dt)]
       /\ ping_timer' = ping_tick(ping_timer, dt)
       /\ ping_elapsed' = IF ping_elapsed = Never THEN Never
                          ELSE Min(ping_cooldown_s, ping_elapsed + dt)
       /\ UNCHANGED <<suppress_spawns, torpedoes_stored, world_torpedoes, captain_consent,
                      powerVars, reqVars, ordered, pump_fwd, pump_aft, configVars, orchVars,
                      ping_reset, eventVars>>

\* The commands and the parts of the tick that change what debug.restart
\* builds anew: a torpedo brought to the water, a helm order, a pump, the
\* masts, a ping, the maintenance tasks.
NextRestart ==
    \/ CmdCaptainConsent(TRUE)
    \/ CmdTubeLoad(1)
    \/ CmdTubeFlood(1)
    \/ CmdTubeDoors(1, TRUE)
    \/ CmdFire(1)
    \/ CmdHelmOrder([heading |-> <<90 * DegU>>, speed |-> Absent, depth |-> Absent])
    \/ CmdPumpToggle("fwd", TRUE)
    \/ \E m \in {"periscope", "radio"} : CmdMastRaise(m, TRUE)
    \/ CmdSonarPing
    \/ CmdMaintenanceSpawns(FALSE)
    \/ TickWorld(45 * SecMs, [s \in Stations |-> NoChoice(s)])
    \/ CmdRestart

SpecRestart == Init /\ [][NextRestart]_vars

\* ---------------------------------------------------------------- C1, C2
AllTubes == {<<s, i>> : s \in ShipIds, i \in TubeIdx}

\* C1: in every reachable state every tube has next_state unset when its
\* timer is 0 and set when its timer is running.
C1_TimerNextState ==
    \A p \in AllTubes :
        LET t == tubes[p[1]][p[2]] IN
        /\ t.timer_s = 0 => t.next_state = NoState
        /\ t.timer_s > 0 => t.next_state # NoState

C1_Witness ==
    /\ op = "tick"
    /\ \E p \in AllTubes :
          /\ tubes[p[1]][p[2]].state = "Loaded"
          /\ tubes[p[1]][p[2]].timer_s > 0
          /\ tubes[p[1]][p[2]].next_state = "Flooded"

\* C2: a tick that runs a tube's timer down to 0 puts the tube in the state
\* that was pending and clears the pending state; a tick that leaves the
\* timer running leaves the tube's state alone.
C2_StepTubes ==
    [][op' = "tick" =>
        \A p \in AllTubes :
            LET t == tubes[p[1]][p[2]]
                u == tubes'[p[1]][p[2]]
            IN /\ (t.timer_s > 0 /\ u.timer_s = 0) =>
                      (u.state = t.next_state /\ u.next_state = NoState)
               /\ (t.timer_s > 0 /\ u.timer_s > 0) => u.state = t.state
      ]_vars

C2_Witness ==
    /\ op = "tick"
    /\ \E p \in AllTubes :
          /\ tubes[p[1]][p[2]].state = "DoorsOpen"
          /\ tubes[p[1]][p[2]].timer_s = 0
          /\ tubes[p[1]][p[2]].next_state = NoState

\* ---------------------------------------------------------------- C3, C4
\* C3: ownship's four power fractions are each >= 0 and sum to at most
\* 1.000001, whatever allocate commands were issued.
C3_PowerBudget ==
    /\ \A k \in Stations : power[k] >= 0
    /\ power.helm + power.weapons + power.sonar + power.engineering <= 1000001

C3_Witness ==
    /\ op = "engineering.power.allocate"
    /\ ret = "None"
    /\ \E k \in Stations : alloc_req[k] = Absent
    /\ \E k \in Stations : alloc_req[k] # Absent /\ alloc_req[k][1] < 0
    /\ power.helm + power.weapons + power.sonar + power.engineering = 1000001

\* What an allocate command asks station k to be set to: the payload's
\* fraction, or the current fraction when the payload does not name k.
C4_Asked(k) == IF alloc_req'[k] = Absent THEN power[k] ELSE alloc_req'[k][1]
C4_AskedClamped(k) == IF C4_Asked(k) < 0 THEN 0 ELSE C4_Asked(k)
C4_OverBudget ==
    C4_AskedClamped("helm") + C4_AskedClamped("weapons")
        + C4_AskedClamped("sonar") + C4_AskedClamped("engineering") > 1000001

\* C4 as stated: a command over budget is refused with "Allocation exceeds
\* budget" and changes no fraction; an accepted command sets the fractions to
\* exactly the requested values.
C4_AsStated ==
    [][op' = "engineering.power.allocate" =>
        /\ C4_OverBudget => (ret' = "Allocation exceeds budget" /\ power' = power)
        /\ ~C4_OverBudget =>
              (ret' = "None" /\ \A k \in Stations : power'[k] = C4_Asked(k))
      ]_vars

\* C4 amended: a command over budget is refused with "Allocation exceeds
\* budget" and changes no fraction; an accepted command sets each fraction to
\* the requested value raised to 0 when it is negative, a fraction the
\* payload does not name keeping its value.
C4_Allocate ==
    [][op' = "engineering.power.allocate" =>
        /\ C4_OverBudget => (ret' = "Allocation exceeds budget" /\ power' = power)
        /\ ~C4_OverBudget =>
              (ret' = "None" /\ \A k \in Stations : power'[k] = C4_AskedClamped(k))
      ]_vars

C4_Witness ==
    /\ op = "engineering.power.allocate"
    /\ ret = "Allocation exceeds budget"
    /\ \A k \in Stations : alloc_req[k] # Absent
    /\ power # Power0

\* ---------------------------------------------------------------- C5, C6
\* C5 as stated: once a ping has been accepted, a ping issued before 12 s of
\* tick time have passed is rejected with "Ping on cooldown" (so accepted
\* pings lie at least 12 s apart), and a rejected ping leaves the cooldown
\* timer as it was.
C5_AsStated ==
    [][op' = "sonar.ping" =>
        /\ (ping_elapsed # Never /\ ping_elapsed < 12000) => ret' = "Ping on cooldown"
        /\ ret' = "Ping on cooldown" => ping_timer' = ping_timer
      ]_vars

\* C5 amended: the same, for pings with no world reset (debug.restart,
\* debug.mission.surface_vessel) since the last accepted ping; a reset clears
\* the cooldown.
C5_Cooldown ==
    [][op' = "sonar.ping" =>
        /\ (ping_elapsed # Never /\ ping_elapsed < 12000 /\ ~ping_reset)
               => ret' = "Ping on cooldown"
        /\ ret' = "Ping on cooldown" => ping_timer' = ping_timer
      ]_vars

C5_Witness ==
    /\ op = "sonar.ping"
    /\ ret = "Ping on cooldown"
    /\ ping_elapsed = 6000
    /\ ping_timer = 6000
    /\ ~ping_reset

\* Is RED ship s within 15 km of ownship?
C6_Within(s) ==
    LET dx == kin["ownship"].x - kin[s].x
        dy == kin["ownship"].y - kin[s].y
    IN dx * dx + dy * dy <= 15000 * 15000

Integrated == {s \in ShipIds : s = "ownship" \/ ~enemy_static}

\* C7: after every tick, each ship the tick integrates has
\* 0 <= depth <= hull.max_depth and 0 <= heading < 360.
C7_Ranges ==
    op = "tick" =>
        \A s \in Integrated :
            /\ 0 <= kin[s].depth /\ kin[s].depth <= max_depth_default
            /\ 0 <= kin[s].heading /\ kin[s].heading < 360 * DegU

\* The depth half of C7 alone, and the heading bound the code does keep.
C7_DepthAndClosedHeading ==
    op = "tick" =>
        \A s \in Integrated :
            /\ 0 <= kin[s].depth /\ kin[s].depth <= max_depth_default
            /\ 0 <= kin[s].heading /\ kin[s].heading <= 360 * DegU

\* What a tick with a failed rudder is to leave of ownship: the heading as it
\* was, and speed, depth and position integrated over some dt.
C8_Integrated(dt) ==
    [integrate_kinematics(kin["ownship"], OwnParams, ordered.heading, ordered.speed,
                          ordered.depth, dt, pump_fwd \/ pump_aft)
        EXCEPT !.heading = kin["ownship"].heading]

\* C8: a tick taken while rudder_ok is false leaves ownship's heading
\* unchanged whatever heading is ordered, and still integrates speed, depth
\* and position.
C8_RudderFailed ==
    [][(op' = "tick" /\ ~rudder_ok) =>
          \E dt \in DtKin : kin'["ownship"] = C8_Integrated(dt)]_vars

\* C8 for the headings C7 allows: the same, from a heading below 360.
C8_RudderFailedBelow360 ==
    [][(op' = "tick" /\ ~rudder_ok /\ kin["ownship"].heading < 360 * DegU) =>
          \E dt \in DtKin : kin'["ownship"] = C8_Integrated(dt)]_vars

\* A tick with a failed rudder, a heading ordered away from the ship's, and
\* the ship under way.
C8_Case ==
    /\ op = "tick" /\ ~rudder_ok
    /\ ordered.heading # kin["ownship"].heading
    /\ kin["ownship"].speed > 0

\* --------------------------------------------------------------- C9, C10
\* Task t of station s is still in the list after the step, at a stage that
\* is not behind the one it had.
C9_Survives(s, t) ==
    \E j \in 1..Len(active_tasks'[s]) :
        /\ active_tasks'[s][j].uid = t.uid
        /\ stage_rank(active_tasks'[s][j].stage) >= stage_rank(t.stage)

\* Task t of station s is gone after the step ...
C9_Gone(s, t) ==
    \A j \in 1..Len(active_tasks'[s]) : active_tasks'[s][j].uid # t.uid

\* ... of a tick in which its progress reached 1.0.
C9_Completes(s, t) ==
    /\ op' = "tick"
    /\ t.started
    /\ \E dt \in DtTasks :
           t.progress + ScaleDt(Max(0, Min(One, power[s])) \div 5, dt) >= One

\* C9 as stated: over every step, every task either stays in its station's
\* list with a stage that has not moved backwards, or leaves the list by
\* completing.
C9_AsStated ==
    [][\A s \in Stations : \A i \in 1..Len(active_tasks[s]) :
          \/ C9_Survives(s, active_tasks[s][i])
          \/ C9_Gone(s, active_tasks[s][i]) /\ C9_Completes(s, active_tasks[s][i])]_vars

\* C9: over every step, every task either stays in its station's list with a
\* stage that has not moved backwards in task < failing < failed, or leaves
\* the list by completing, or is dropped with all others by a world reset.
C9_Tasks ==
    [][\A s \in Stations : \A i \in 1..Len(active_tasks[s]) :
          \/ C9_Survives(s, active_tasks[s][i])
          \/ C9_Gone(s, active_tasks[s][i]) /\ C9_Completes(s, active_tasks[s][i])
          \/ C9_Gone(s, active_tasks[s][i]) /\ op' = "debug.restart"]_vars

\* A tick that completed one task of a station and left another, which has
\* gone all the way to failed.
C9_Witness ==
    /\ op = "tick"
    /\ \E s \in Stations :
           /\ completed[s] # {}
           /\ \E i \in 1..Len(active_tasks[s]) : active_tasks[s][i].stage = "failed"

\* The worst stage among the tasks a station is left with.
C10_Worst(s) ==
    IF \E i \in 1..Len(active_tasks[s]) : active_tasks[s][i].stage = "failed"
    THEN "failed"
    ELSE IF \E i \in 1..Len(active_tasks[s]) : active_tasks[s][i].stage = "failing"
    THEN "failing"
    ELSE "task"

C10_WitnessWeapons ==
    /\ op = "tick"
    /\ \E d \in completed["weapons"] : d.stage # "failed"
    /\ C10_Worst("weapons") = "failed"
    /\ time_penalty_multiplier = 25 /\ ~tubes_ok

\* -------------------------------------------------------------- C11, C12
\* The validated call c is for an action the capabilities cp do not allow.
C11_Lacks(c, cp) ==
    \/ c.tool = "set_nav" /\ ~cp.can_set_nav
    \/ c.tool = "fire_torpedo" /\ ~cp.has_torpedoes
    \/ c.tool = "drop_depth_charges" /\ ~cp.has_depth_charges

\* C11: on both apply paths (the ship job and the ai.tool command), a
\* set_nav for a ship without can_set_nav, a fire_torpedo for a ship without
\* has_torpedoes and a drop_depth_charges for a ship without
\* has_depth_charges leave the ships' kinematics and inventories and the
\* world's torpedo list unchanged.
C11_CapabilityGate ==
    [][(/\ op' \in {"ship_job", "ai.tool"}
        /\ call'.sid \in RedIds
        /\ C11_Lacks(call'.validated, caps[call'.sid]))
           => UNCHANGED <<kin, torpedoes_stored, dc, world_torpedoes>>]_vars

\* The same on the ai.tool path alone.
C11_AiToolGate ==
    [][(/\ op' = "ai.tool"
        /\ call'.sid \in RedIds
        /\ C11_Lacks(call'.validated, caps[call'.sid]))
           => UNCHANGED <<kin, torpedoes_stored, dc, world_torpedoes>>]_vars

\* C12: a step of an orchestrator job (fleet or ship) changes neither the
\* ships' kinematics and inventories, nor the world's torpedo list, nor the
\* FleetIntent; those change in ticks and command handlers only.
C12_JobsLeaveWorld ==
    [][op' \in {"ship_job", "fleet_job"}
           => UNCHANGED <<kin, torpedoes_stored, dc, world_torpedoes, fleet_intent>>]_vars

\* -------------------------------------------------------------- C13, C14
\* The step ends a job that was in flight when stop() was called.
C13_EndsStoppedJob ==
    /\ op' \in {"ship_job", "fleet_job"}
    /\ \E i \in DOMAIN ai_pending :
          ai_pending[i].at_stop /\ ai_pending' = Remove(ai_pending, i)

\* C13: stop() leaves no job pending, and a job that was in flight when
\* stop() was called ends without applying a tool call and without replacing
\* the FleetIntent.
C13_StopCancelsJobs ==
    [][/\ op' = "stop" => ai_pending' = <<>>
       /\ C13_EndsStoppedJob =>
              UNCHANGED <<kin, torpedoes_stored, dc, world_torpedoes, fleet_intent,
                          last_fleet_intent>>]_vars

\* The second half alone: what a job in flight at stop() does when it ends.
C13_StoppedJobsDiscarded ==
    [][C13_EndsStoppedJob =>
           UNCHANGED <<kin, torpedoes_stored, dc, world_torpedoes, fleet_intent,
                       last_fleet_intent>>]_vars

\* C14: once stop() has been called, no tick starts; a run() called after it
\* returns at once, and a run() that was sleeping when it was called
\* eventually returns.
C14_StopEndsRun ==
    /\ [][stop_set => op' # "tick"]_vars
    /\ [][(stop_set /\ run_pc = "idle" /\ op' = "run") => run_pc' = "returned"]_vars
    /\ (stop_set /\ run_pc = "sleeping") ~> (run_pc = "returned")

\* run() has returned after a stop().
C14_Witness ==
    /\ stop_set
    /\ op = "run"
    /\ run_pc = "returned"

\* ------------------------------------------------------------------- C15
\* No RED ship of the world with the kinematics k detects ownship, by
\* passive sonar or visually.
C15_Undetected(k) ==
    \A s \in RedIds :
        /\ in_baffles(k[s], k["ownship"]) \/ passive_detect(k[s], k["ownship"]) < 150
        /\ ~visual_detected(s, k)

\* The world as it is but for ownship's position, depth, heading and speed.
C15_Other(b) == [kin EXCEPT !["ownship"] = b]

C16_PublishDropsOldest ==
    [][op' = "publish" =>
         \A c \in Subscribers :
             bus_queues[c] # Closed =>
                 bus_queues'[c] = IF Len(bus_queues[c]) >= MaxQueue
                                  THEN Append(Tail(bus_queues[c]), bus_sent')
                                  ELSE Append(bus_queues[c], bus_sent')]_vars

\* ---------------------------------------------------------------- C17
\* C17: a write to the database that raises never aborts a tick: the tick
\* in which insert_event fails ends as every other tick does and has
\* performed the steps that follow the write (step_engineering, the task
\* penalties).
C17_StorageNeverAborts ==
    [][(op' = "tick" /\ ~storage_ok) =>
         /\ ret' = TickOutcome
         /\ wtimes' = step_engineering_times(power.weapons, output_mw, damage_hull)
         /\ time_penalty_multiplier' \in {weapons_stage_mult(w) : w \in Stages}]_vars

\* ---------------------------------------------------------------- C18
\* C18: when a RED ship is scheduled and its alert condition held at every
\* tick since its previous scheduled run, the simulated time between the two
\* runs is at most the alert cadence plus the length of the tick that
\* scheduled it.
C18_AlertCadence ==
    \A s \in RedIds :
        (scheduled[s].ran /\ scheduled[s].alert /\ scheduled[s].gap # Never) =>
            scheduled[s].gap <= ai_ship_alert_cadence_s + scheduled[s].dt

\* A ship scheduled again under a continuous alert, sooner than its normal
\* cadence allows and after more than one tick.
C18_Witness ==
    \E s \in RedIds :
        /\ op = "tick"
        /\ scheduled[s].ran /\ scheduled[s].alert /\ scheduled[s].gap # Never
        /\ scheduled[s].gap >= ai_ship_alert_cadence_s
        /\ scheduled[s].gap < ai_ship_cadence_s
        /\ scheduled[s].gap > scheduled[s].dt

\* ---------------------------------------------------------------- C19
\* C19: while the ship engine kind is "stub", every step of a ship job
\* validates no tool call, leaves the kinematics, the inventories, the tubes
\* and the FleetIntent unchanged, and appends exactly one recent-run entry,
\* of the ship agent, not ok, with source disabled_stub.
C19_StubNeverActs ==
    [][(op' = "ship_job" /\ ship_engine_kind = "stub") =>
         /\ call'.validated = NoCall
         /\ UNCHANGED <<kin, torpedoes_stored, world_torpedoes, dc, tubes, fleet_intent,
                        last_fleet_intent>>
         /\ Len(recent_runs') = 1
         /\ recent_runs'[1].agent = "ship"
         /\ ~recent_runs'[1].ok
         /\ recent_runs'[1].source = "disabled_stub"]_vars

\* A ship job has run under the stub engine and recorded its policy result.
C19_Witness ==
    /\ ship_engine_kind = "stub"
    /\ op = "ship_job"
    /\ call.sid \in RedIds
    /\ Len(recent_runs) = 1 /\ recent_runs[1].source = "disabled_stub"

\* ------------------------------------------- the unknown-tool fallback
\* Ticks called on the simulation directly with language-model engines: the
\* fleet engine answers intents, the ship engine a tool that run_ship does
\* not know or nothing in time.
UnknownOrNone == {r \in ShipReplies : r.tool \in {"active_ping", "none"}}
InitFallback == InitOrch /\ ship_engine_kind = "openai" /\ caps = [s \in RedIds |-> SSNCaps]
NextFallback ==
    \/ TickOrch(10 * SecMs, [s \in RedIds |-> FALSE])
    \/ \E i \in 1..MaxJobs : ShipJobStart(i)
    \/ \E i \in 1..MaxJobs, r \in UnknownOrNone : ShipJobReply(i, r)
    \/ \E i \in 1..MaxJobs : FleetJobStart(i)
    \/ \E i \in 1..MaxJobs, r \in FleetReplies : FleetJobReply(i, r)
SpecFallback == InitFallback /\ [][NextFallback]_vars

\* ---------------------------------------------------------------- C20
\* The last step was a ship job whose engine named a tool outside the four
\* ship tools.
C20_UnknownTool ==
    /\ op' = "ship_job"
    /\ call'.reply \notin (ShipToolNames \cup {"none", "exception"})

\* What C20 asks of such a step when the intent it holds a destination for
\* the ship (has): the set_nav towards the intent's destination, at a speed
\* within the hull's, is the validated call and the run is recorded with an
\* error and source intent_fallback; otherwise no call is validated, nothing
\* is applied and the run is recorded as errored.  Either way the engine's
\* tool is not the validated one and no weapon is spent.
C20_Fallback(sid, intent, has) ==
    /\ call'.validated.tool # call'.reply
    /\ UNCHANGED <<torpedoes_stored, world_torpedoes, dc, tubes>>
    /\ Len(recent_runs') = 1 /\ ~recent_runs'[1].ok
    /\ IF has
       THEN /\ call'.validated.tool = "set_nav"
            /\ call'.validated.args.heading =
                   <<bearing(intent.dest.elems[1] - kin[sid].x, intent.dest.elems[2] - kin[sid].y)>>
            /\ call'.validated.args.speed # <<>>
            /\ call'.validated.args.speed[1] \in 0..red_max_speed
            /\ recent_runs'[1].source = "intent_fallback"
       ELSE /\ call'.validated = NoCall
            /\ UNCHANGED kin
            /\ recent_runs'[1].source # "intent_fallback"

\* C20 as stated: the fallback is decided by the FleetIntent current when
\* the engine's answer is validated, and a two-element destination is enough
\* for it.
C20_FallbackFromCurrentIntent ==
    [][C20_UnknownTool =>
         C20_Fallback(call'.sid, last_fleet_intent,
                      last_fleet_intent.set /\ Len(last_fleet_intent.dest.elems) = 2)]_vars

\* C20: when the ship engine names a tool outside the four ship tools, the
\* tool is never validated or applied; if the FleetIntent that the run's
\* summary carries (the one current when the run began) holds for the ship a
\* destination of two elements that are numbers, the set_nav towards it at a
\* speed within the hull's is the only validated call and the run is
\* recorded not ok with source intent_fallback; otherwise no call is
\* validated, nothing is applied and the run is recorded not ok.
C20_FallbackFromSummaryIntent ==
    [][C20_UnknownTool =>
         \E i \in DOMAIN ai_pending :
             /\ ai_pending[i].kind = "ship" /\ ai_pending[i].pc = "awaiting"
             /\ ai_pending[i].sid = call'.sid
             /\ ai_pending' = Remove(ai_pending, i)
             /\ C20_Fallback(ai_pending[i].sid, ai_pending[i].intent,
                             /\ ai_pending[i].intent.set
                             /\ Len(ai_pending[i].intent.dest.elems) = 2
                             /\ ai_pending[i].intent.dest.numeric)]_vars

\* The engine named an unknown tool and the run fell back on a destination
\* due north that is no longer the current intent's.
C20_Witness ==
    /\ op = "ship_job"
    /\ call.reply = "active_ping"
    /\ call.validated.tool = "set_nav"
    /\ call.validated.args.heading = <<0>>
    /\ last_fleet_intent.dest # North
    /\ Len(recent_runs) = 1 /\ recent_runs[1].source = "intent_fallback"

\* ---------------------------------------------------------------- C21
\* C21: a fleet or ship run whose engine call raises (an error, no JSON, a
\* timeout) validates no tool call, appends exactly one entry to the recent
\* runs, of its agent and not ok, returns to its job without raising, and
\* leaves the kinematics, the inventories, the tubes and the FleetIntent
\* unchanged.
C21_FailedRun ==
    [][(op' \in {"ship_job", "fleet_job"} /\ call'.reply = "exception") =>
         /\ call'.validated = NoCall
         /\ Len(recent_runs') = 1
         /\ recent_runs'[1].agent = (IF op' = "ship_job" THEN "ship" ELSE "fleet")
         /\ ~recent_runs'[1].ok
         /\ ret' = "None"
         /\ UNCHANGED <<kin, torpedoes_stored, world_torpedoes, dc, tubes, fleet_intent,
                        last_fleet_intent>>]_vars

\* A fleet run has failed while a FleetIntent with an objective was stored.
C21_Witness ==
    /\ op = "fleet_job"
    /\ call.reply = "exception"
    /\ fleet_intent.set
    /\ Len(recent_runs) = 1 /\ ~recent_runs[1].ok

C23_RestartDefaults ==
    [][op' = "debug.restart" =>
         /\ DOMAIN kin' = {"ownship", "red-01"}
         /\ kin'["ownship"].heading = 270 * DegU
         /\ kin'["ownship"].speed = 8 * SpeedU
         /\ kin'["ownship"].depth = 100 * DepthU
         /\ kin'["red-01"] = [x |-> 3000, y |-> 0, depth |-> 120 * DepthU,
                              heading |-> 90 * DegU, speed |-> 8 * SpeedU]
         /\ ordered' = [heading |-> kin'["ownship"].heading, speed |-> kin'["ownship"].speed,
                        depth |-> kin'["ownship"].depth]
         /\ ~pump_fwd' /\ ~pump_aft'
         /\ ~periscope_raised' /\ ~radio_raised'
         /\ ~captain_consent'
         /\ ping_timer' = 0
         /\ world_torpedoes' = 0
         /\ \A st \in Stations : active_tasks'[st] = <<>>]_vars

\* The state before a restart that has something of everything to undo.
\* A restart after a ping (whose event it leaves queued) has rebuilt the
\* default world.
C23_Witness ==
    /\ op = "debug.restart"
    /\ transient_events # <<>>
    /\ kin = Kin0 /\ ordered = Ordered0
    /\ world_torpedoes = 0
\* -------------------------------------------------------------- C24, C25
C24_WeaponCommands == {"weapons.tube.load", "weapons.tube.flood", "weapons.tube.doors",
                   "weapons.fire"}

C24_Chain == {<<"Empty", "Loaded">>, <<"Loaded", "Flooded">>,
              <<"Flooded", "DoorsOpen">>, <<"DoorsOpen", "Empty">>}

C24_Changes(allowed) ==
    \A p \in AllTubes :
        tubes'[p[1]][p[2]].state # tubes[p[1]][p[2]].state =>
            <<tubes[p[1]][p[2]].state, tubes'[p[1]][p[2]].state>> \in allowed

\* C24 as stated: under weapon commands and ticks a tube's state changes only
\* along Empty -> Loaded, Loaded -> Flooded, Flooded -> DoorsOpen and
\* DoorsOpen -> Empty.
C24_OnlyForwardChain ==
    [][op' \in C24_WeaponCommands \cup {"tick"} => C24_Changes(C24_Chain)]_vars

\* C24 amended: under weapon commands and ticks a tube's state changes only
\* along the four steps of the chain and DoorsOpen -> Flooded (close doors).
C24_ChainWithDoorsClose ==
    [][op' \in C24_WeaponCommands \cup {"tick"} =>
        C24_Changes(C24_Chain \cup {<<"DoorsOpen", "Flooded">>})]_vars

\* An accepted close-doors command: the tube is DoorsOpen with Flooded pending.
C24_Witness ==
    /\ op = "weapons.tube.doors"
    /\ ret = "None"
    /\ \E i \in TubeIdx :
          /\ own_tubes[i].state = "DoorsOpen"
          /\ own_tubes[i].next_state = "Flooded"
          /\ own_tubes[i].timer_s > 0

\* C25: a load, flood, doors or fire command issued while a tube's timer is
\* running leaves that tube as it was, and when every tube's timer is running
\* the command is refused and leaves the inventory and the torpedoes in the
\* water as they were.
C25_RejectedWhileTimerRuns ==
    [][op' \in C24_WeaponCommands =>
        /\ \A i \in TubeIdx :
              own_tubes[i].timer_s > 0 => tubes'["ownship"][i] = own_tubes[i]
        /\ (\A i \in TubeIdx : own_tubes[i].timer_s > 0) =>
              /\ ret' # "None"
              /\ torpedoes_stored' = torpedoes_stored
              /\ world_torpedoes' = world_torpedoes
      ]_vars
\* ------------------------------------------------------------------- C26
\* C26: after every task step a station with no remaining tasks is at its
\* no-penalty baseline: helm turn_rate_max 7, the four sonar noise and SNR
\* penalties 0, weapons time-penalty multiplier 1.0.
C26_BaselineWhenNoTasks ==
    op = "tick" =>
        /\ active_tasks["helm"] = <<>> => turn_rate_max = 70
        /\ active_tasks["sonar"] = <<>> =>
               /\ acoustics.bearing_noise_extra = 0
               /\ acoustics.passive_snr_penalty_db = 0
               /\ acoustics.active_range_noise_add_m = 0
               /\ acoustics.active_bearing_noise_extra = 0
        /\ active_tasks["weapons"] = <<>> => time_penalty_multiplier = 10
\* ------------------------------------------------------------------- C27
\* C27: after every set_nav applied by a ship job or by an accepted ai.tool
\* command the target ship has heading in [0, 360), speed in
\* [0, hull.max_speed] and depth in [0, hull.max_depth].
C27_SetNavInRange ==
    [][(/\ call'.validated.tool = "set_nav"
        /\ call'.sid \in RedIds
        /\ \/ op' = "ship_job"
           \/ op' = "ai.tool" /\ ret' = "None")
          => LET k == kin'[call'.sid] IN
             /\ 0 <= k.heading /\ k.heading < 360 * DegU
             /\ 0 <= k.speed /\ k.speed <= red_max_speed
             /\ 0 <= k.depth /\ k.depth <= max_depth_default]_vars
\* ------------------------------------------------------------------- C28
\* C28: between two consecutive ticks a fleet job never stores its
\* set_fleet_intent right after a ship job has applied its tool call: when
\* both complete in the same interval the fleet job's call is applied first.
C28_FleetBeforeShip ==
    [][~(/\ op = "ship_job"
         /\ call.validated.tool # "none"
         /\ op' = "fleet_job"
         /\ call'.validated.tool = "set_fleet_intent")]_vars
\* ------------------------------------------------------------------- C29
\* C29: no tick runs while a handle_command execution is under way (a tick is
\* one step up to the line at which it raises, so no command acts inside
\* one): every command is handled entirely before a tick or after it.
C29_CommandsBetweenTicks == [][op' = "tick" => cmd_pc = "idle"]_vars
\* ------------------------------------------------------------------- C30
\* C30: a tick that schedules a fleet run more than one alert cadence window
\* after the last confidence trigger, with no trigger of its own, schedules
\* it at the normal cadence: the fleet timer has reached fleet_cadence_s.
C30_RevertsToNormal ==
    [][(/\ op' = "tick"
        /\ ai_fleet_timer' = 0
        /\ since_trigger # Never
        /\ since_trigger > ai_fleet_alert_cadence_s
        /\ since_trigger' # 0)
          => \E s \in RedIds : ai_fleet_timer + scheduled'[s].dt >= ai_fleet_cadence_s]_vars
\* ------------------------------------------------------------------- C31
\* handle_command with a topic none of its branches tests for: every "if
\* topic ==" fails and the final "return None" is reached.
UnknownTopics == {"helm.turn", "weapons.tube.unload"}

CmdUnknownTopic(topic) ==
    /\ ret' = "None"
    /\ op' = topic
    /\ UNCHANGED <<weaponVars, weaponEnv, nonWeapon>>

\* Commands of several stations, and topics that are none of theirs.
NextTopics ==
    \/ \E c \in BOOLEAN : CmdCaptainConsent(c)
    \/ \E i \in TubeArg : CmdTubeLoad(i)
    \/ \E n \in {"fwd", "aft"}, b \in BOOLEAN : CmdPumpToggle(n, b)
    \/ \E m \in {"periscope", "radio"}, b \in BOOLEAN : CmdMastRaise(m, b)
    \/ \E t \in UnknownTopics : CmdUnknownTopic(t)

SpecTopics == Init /\ [][NextTopics]_vars

\* C31: a command with an unrecognised topic returns an error string (not
\* None) and changes no simulation state.
C31_UnknownTopicRejected ==
    [][op' \in UnknownTopics =>
          /\ ret' # "None"
          /\ UNCHANGED <<weaponVars, weaponEnv, nonWeapon>>]_vars
\* ------------------------------------------- weapons.py, step_torpedo
\* A torpedo of world.torpedoes: position in metres, heading in whole
\* degrees, run_time and max_run_time in milliseconds, enable_range_m in
\* metres.  shooter names the ship whose launch built the record; the
\* program keeps only its side.
torpedo_speed == 45 * SpeedU
test_max_run_time == 600 * SecMs
enable_range_default == 800
seeker_range_m == 4000
fuze_range_m == 30
safety_range_m == 200
avoid_range_m == 300
safety_run_time == 3 * SecMs
hull_hit == 50
flooding_hit == 2000
flooding_max == 10000

Side(s) == IF s = "ownship" THEN "BLUE" ELSE "RED"

\* math.hypot, to the metre below.
hypot(dx, dy) ==
    IF dy = 0 THEN Abs(dx)
    ELSE IF dx = 0 THEN Abs(dy)
    ELSE CHOOSE r \in 0..(Abs(dx) + Abs(dy)) :
             r * r <= dx * dx + dy * dy /\ dx * dx + dy * dy < (r + 1) * (r + 1)

\* The compass bearing of (dx, dy) in the degrees of a torpedo's heading.
bearing_deg(dx, dy) == bearing(dx, dy) \div DegU

\* abs(((a - b + 540) % 360) - 180) and the signed difference it is taken of.
turn_to(a, b) == ((a - b + 540) % 360) - 180

rng_to(t, k) == hypot(k.x - t.x, k.y - t.y)

\* "if not t['armed'] and dist_from_shooter >= t['enable_range_m']", the
\* distance being taken from world.ships["ownship"].
arms(t, k) == ~t.armed /\ rng_to(t, k["ownship"]) >= t.enable_range_m

\* The pre-arm turn away from ownship, by up to 30 degrees per second.
avoid_heading(t, k, dt) ==
    LET b == bearing_deg(k["ownship"].x - t.x, k["ownship"].y - t.y)
        dh == turn_to((b + 180) % 360, t.heading)
        max_turn == ScaleDt(30, dt)
    IN IF rng_to(t, k["ownship"]) < avoid_range_m /\ Abs(turn_to(b, t.heading)) < 60
       THEN (t.heading + Max(0 - max_turn, Min(max_turn, dh))) % 360
       ELSE t.heading

\* The opposing ships within the proximity fuze's range.
fuze_near(t, k) ==
    {s \in ShipIds : Side(s) # t.side /\ rng_to(t, k[s]) < fuze_range_m}

\* _nearest_target: the nearest opposing ship within the seeker's range
\* (six tenths of it under ownship's thermocline) and cone.
seen(t, k) ==
    {s \in ShipIds :
        /\ Side(s) # t.side
        /\ rng_to(t, k[s]) * 10 <= seeker_range_m * 6
        /\ Abs(turn_to(bearing_deg(k[s].x - t.x, k[s].y - t.y), t.heading)) * 2 <= 35}

\* Guidance toward the line of sight of the seen ship when no countermeasure
\* spoofs the seeker: the error-proportional turn, clamped to 20 degrees per
\* second (the line-of-sight rate of a ship on the torpedo's own line is 0).
guide_heading(t, k, dt) ==
    IF ~t.armed \/ seen(t, k) = {} THEN t.heading
    ELSE LET s == CHOOSE c \in seen(t, k) :
                      \A o \in seen(t, k) : rng_to(t, k[c]) <= rng_to(t, k[o])
             dh == turn_to(bearing_deg(k[s].x - t.x, k[s].y - t.y), t.heading)
         IN (t.heading + ScaleDt(Max(0 - 20, Min(20, dh)), dt)) % 360

\* The end of step_torpedo: the torpedo moves along its heading at its speed
\* and its run_time grows by dt.
move_torpedo(g, dt) ==
    [g EXCEPT !.x = g.x + advance(SinMilli(g.heading), g.speed, dt),
              !.y = g.y + advance(CosMilli(g.heading), g.speed, dt),
              !.run_time = g.run_time + dt]

steer_torpedo(a, k, dt) ==
    [a EXCEPT !.heading = IF a.armed THEN a.heading ELSE avoid_heading(a, k, dt)]

guide_torpedo(h, k, dt) == [h EXCEPT !.heading = guide_heading(h, k, dt)]

\* "t['run_time'] = t['max_run_time'] + 1.0; return"
spent(a) == [a EXCEPT !.run_time = a.max_run_time + SecMs]

\* step_torpedo after its arming lines: the post-arm self-destruct near
\* ownship, then the proximity fuze against the opposing ships in the
\* world's order, then the avoidance turn, the guidance and the move.  The
\* result is the torpedo after the step, what the step came to, and the ship
\* it detonated against.
fuze_step(a, k, dt) ==
    IF a.armed /\ rng_to(a, k["ownship"]) < safety_range_m
               /\ a.run_time > safety_run_time
    THEN [t |-> spent(a), outcome |-> "self_destruct", target |-> "none"]
    ELSE IF a.armed /\ fuze_near(a, k) # {}
    THEN [t |-> spent(a), outcome |-> "detonated",
          target |-> CHOOSE s \in fuze_near(a, k) : TRUE]
    ELSE [t |-> CHOOSE m \in {move_torpedo(g, dt) :
                                 g \in {guide_torpedo(h, k, dt) :
                                           h \in {steer_torpedo(a, k, dt)}}} : TRUE,
          outcome |-> "running", target |-> "none"]

\* step_torpedo(t, world, dt)
step_torpedo(t, k, dt) ==
    CHOOSE r \in {fuze_step(a, k, dt) : a \in {[t EXCEPT !.armed = t.armed \/ arms(t, k)]}} :
        TRUE

\* The step as the tick's callback lets it run: _on_event hands every event
\* to insert_event, and a write the database refuses raises out of the step
\* at the first event, "torpedo.armed" right after the flag is set,
\* "torpedo.self_destruct" before, and "torpedo.detonated" after the damage
\* but before, the run time is put past its maximum.
step_torpedo_event(t, r, k) ==
    IF storage_ok THEN r
    ELSE IF arms(t, k)
    THEN [t |-> [t EXCEPT !.armed = TRUE], outcome |-> "raised", target |-> "none"]
    ELSE IF r.outcome = "self_destruct"
    THEN [t |-> t, outcome |-> "raised", target |-> "none"]
    ELSE IF r.outcome = "detonated"
    THEN [t |-> t, outcome |-> "raised", target |-> r.target]
    ELSE r

\* The detonation without its flooding.
detonate_hull_only(dmg, s) ==
    [dmg EXCEPT ![s] = [hull |-> Min(100, dmg[s].hull + hull_hit),
                        flooding_rate |-> dmg[s].flooding_rate]]

\* ship.damage of every ship.
AllDamage ==
    [s \in ShipIds |->
        IF s = "ownship" THEN [hull |-> damage_hull, flooding_rate |-> flooding_rate]
        ELSE red_damage[s]]

\* "ship.damage.hull = min(1.0, hull + 0.5); flooding_rate = min(10.0, ... + 2.0)"
detonate(dmg, s) ==
    [dmg EXCEPT ![s] = [hull |-> Min(100, dmg[s].hull + hull_hit),
                        flooding_rate |-> Min(flooding_max,
                                              dmg[s].flooding_rate + flooding_hit)]]

\* What one step of the tick's torpedo loop saw and did.
fuze_record(t, r, k) ==
    [id |-> t.id, was_armed |-> t.armed, armed |-> r.t.armed, near |-> fuze_near(t, k),
     shooter_rng |-> rng_to(t, k[t.shooter]), enable_range_m |-> t.enable_range_m,
     own_rng |-> rng_to(t, k["ownship"]), run_time |-> t.run_time,
     outcome |-> r.outcome, target |-> r.target,
     removed |-> r.t.run_time > r.t.max_run_time]

\* "if t['run_time'] > t['max_run_time']: self.world.torpedoes.remove(t)"
keep_torpedo(t, r, k, rest) ==
    [torps |-> IF r.t.run_time > r.t.max_run_time THEN rest.torps
               ELSE <<r.t>> \o rest.torps,
     damage |-> rest.damage,
     fuze |-> <<fuze_record(t, r, k)>> \o rest.fuze,
     raised |-> rest.raised]

\* The loop left by the exception of torpedo i's step: the torpedoes from i
\* on stay in the list, the damage of a detonation is done.
raise_torpedo(r, i, ts, k, dmg) ==
    [torps |-> <<r.t>> \o SubSeq(ts, i + 1, Len(ts)),
     damage |-> IF r.target = "none" THEN dmg ELSE detonate(dmg, r.target),
     fuze |-> <<fuze_record(ts[i], r, k)>>,
     raised |-> TRUE]

\* The tick's loop over list(world.torpedoes) from the i-th torpedo on: each
\* is stepped against the ships as the tick has moved them and the damage
\* the earlier torpedoes left, and is removed once its run_time exceeds its
\* max_run_time.
RECURSIVE step_torpedoes(_, _, _, _, _)
step_next_torpedo(r, i, ts, k, dmg, dt) ==
    IF r.outcome = "raised" THEN raise_torpedo(r, i, ts, k, dmg) ELSE
    CHOOSE kept \in {keep_torpedo(ts[i], r, k, rest) :
                        rest \in {step_torpedoes(i + 1, ts, k,
                                                 IF r.outcome = "detonated"
                                                 THEN detonate(dmg, r.target) ELSE dmg,
                                                 dt)}} : TRUE
step_torpedoes(i, ts, k, dmg, dt) ==
    IF i > Len(ts) THEN [torps |-> <<>>, damage |-> dmg, fuze |-> <<>>, raised |-> FALSE]
    ELSE CHOOSE res \in {step_next_torpedo(r, i, ts, k, dmg, dt) :
                            r \in {step_torpedo_event(ts[i], q, k) :
                                      q \in {step_torpedo(ts[i], k, dt)}}} : TRUE

\* -------------------------------------- weapons.py, step_depth_charge
dc_sink_rate == 5
dc_floor_m == 1000
dc_hit_range_m == 60
dc_near_range_m == 120
dc_hit_hull == 40
dc_near_hull == 15
dc_near_flooding == 500

\* The square of the 3D distance between a charge and a ship, in metres.
dist3_sq(c, ks) ==
    (ks.x - c.x) * (ks.x - c.x) + (ks.y - c.y) * (ks.y - c.y)
        + (ks.depth \div DepthU - c.depth) * (ks.depth \div DepthU - c.depth)

\* The spherical damage of a charge at c: every opposing ship within 60 m
\* takes hull + 0.40 and flooding + 2.0, within 120 m hull + 0.15 and
\* flooding + 0.5.
blast(c, k, dmg) ==
    [s \in ShipIds |->
        IF Side(s) = c.side THEN dmg[s]
        ELSE IF dist3_sq(c, k[s]) <= dc_hit_range_m * dc_hit_range_m
        THEN [hull |-> Min(100, dmg[s].hull + dc_hit_hull),
              flooding_rate |-> Min(flooding_max, dmg[s].flooding_rate + flooding_hit)]
        ELSE IF dist3_sq(c, k[s]) <= dc_near_range_m * dc_near_range_m
        THEN [hull |-> Min(100, dmg[s].hull + dc_near_hull),
              flooding_rate |-> Min(flooding_max, dmg[s].flooding_rate + dc_near_flooding)]
        ELSE dmg[s]]

\* The opposing ships a charge at c damages.
in_blast(c, k) ==
    {s \in ShipIds : Side(s) # c.side
                        /\ dist3_sq(c, k[s]) <= dc_near_range_m * dc_near_range_m}

\* step_depth_charge(dc, world, dt) on a charge sunk to c by this step: it
\* detonates within 1 m of its target depth. Each damaged ship is reported
\* ("depth_charge.hit", "depth_charge.near") before the charge is marked
\* exploded, the detonation after; a write the database refuses raises out
\* of the step there (one ship opposes the charge). hits counts the times
\* the charge has done damage.
detonate_charge(c, k, dmg) ==
    IF Abs(c.depth - c.target_depth) <= 1
    THEN [c |-> [c EXCEPT !.exploded = storage_ok \/ in_blast(c, k) = {},
                          !.hits = IF in_blast(c, k) = {} THEN c.hits ELSE c.hits + 1],
          damage |-> blast(c, k, dmg), detonated |-> TRUE, raised |-> ~storage_ok]
    ELSE [c |-> c, damage |-> dmg, detonated |-> FALSE, raised |-> FALSE]

\* step_depth_charge(dc, world, dt): nothing for an exploded charge;
\* otherwise the charge sinks at its rate and may detonate.
step_depth_charge(c, k, dmg, dt) ==
    IF c.exploded THEN [c |-> c, damage |-> dmg, detonated |-> FALSE, raised |-> FALSE]
    ELSE detonate_charge([c EXCEPT !.depth = c.depth + ScaleDt(dc_sink_rate, dt)], k, dmg)

\* "if dc.get('exploded', False) or dc.get('depth', 0.0) > 1000.0: remove"
keep_charge(c, r, rest) ==
    [charges |-> IF r.c.exploded \/ r.c.depth > dc_floor_m THEN rest.charges
                 ELSE <<r.c>> \o rest.charges,
     damage |-> rest.damage,
     blasts |-> <<[id |-> c.id, was_exploded |-> c.exploded, detonated |-> r.detonated,
                  hits |-> r.c.hits,
                  removed |-> r.c.exploded \/ r.c.depth > dc_floor_m]>> \o rest.blasts,
     raised |-> rest.raised]

\* The loop left by the exception of charge i's step: the charges from i on
\* stay in the list.
raise_charge(r, i, cs) ==
    [charges |-> <<r.c>> \o SubSeq(cs, i + 1, Len(cs)),
     damage |-> r.damage,
     blasts |-> <<[id |-> cs[i].id, was_exploded |-> cs[i].exploded,
                  detonated |-> r.detonated, hits |-> r.c.hits, removed |-> FALSE]>>,
     raised |-> TRUE]

\* The tick's loop over list(world.depth_charges) from the i-th charge on.
RECURSIVE step_depth_charges(_, _, _, _, _)
step_next_charge(r, i, cs, k, dt) ==
    IF r.raised THEN raise_charge(r, i, cs) ELSE
    CHOOSE kept \in {keep_charge(cs[i], r, rest) :
                        rest \in {step_depth_charges(i + 1, cs, k, r.damage, dt)}} : TRUE
step_depth_charges(i, cs, k, dmg, dt) ==
    IF i > Len(cs) THEN [charges |-> <<>>, damage |-> dmg, blasts |-> <<>>, raised |-> FALSE]
    ELSE CHOOSE res \in {step_next_charge(r, i, cs, k, dt) :
                            r \in {step_depth_charge(cs[i], k, dmg, dt)}} : TRUE

\* step_damage(own, dt, pump_effect): flooding decays by 2.0 per second while
\* a pump runs.
step_damage(fl, dt) ==
    IF fl > 0 /\ (pump_fwd \/ pump_aft) THEN Max(0, fl - 2 * dt) ELSE fl

\* The part of a tick that moves the ships and the weapons in the water:
\* the kinematics (which take the ships to k), step_tubes, the torpedo loop,
\* the depth-charge loop, step_damage and the tube times of
\* step_engineering; the tick then raises as every tick does.
\* The depth-charge loop after the torpedo loop left rt; an exception of the
\* torpedo loop ends the tick before it.
TickOrdnance(rt, k, dt) ==
    IF rt.raised
    THEN [charges |-> depth_charges, damage |-> rt.damage, blasts |-> <<>>, raised |-> TRUE]
    ELSE step_depth_charges(1, depth_charges, k, rt.damage, dt)

TickTorpedoesAt(k, dt) ==
    \E rt \in {step_torpedoes(1, torps, k, AllDamage, dt)} :
    \E r \in {TickOrdnance(rt, k, dt)} :
       /\ kin' = k
       /\ tubes' = [s \in ShipIds |-> step_tubes(tubes[s], dt)]
       /\ torps' = rt.torps
       /\ world_torpedoes' = Len(rt.torps)
       /\ fuze' = rt.fuze
       /\ depth_charges' = r.charges
       /\ blasts' = r.blasts
       /\ damage_hull' = r.damage["ownship"].hull
       /\ flooding_rate' = IF r.raised THEN r.damage["ownship"].flooding_rate
                           ELSE step_damage(r.damage["ownship"].flooding_rate, dt)
       /\ red_damage' = [s \in RedIds |-> r.damage[s]]
       /\ wtimes' = IF r.raised THEN wtimes
                     ELSE step_engineering_times(power.weapons, output_mw,
                                                 r.damage["ownship"].hull)
       /\ ret' = IF r.raised THEN "OperationalError" ELSE TickOutcome
       /\ op' = "tick"
       /\ UNCHANGED <<torpedoes_stored, captain_consent, tubes_ok, time_penalty_multiplier,
                      power, output_mw, reqVars, ordered, helmEnv, configVars, pingVars,
                      eventVars, taskVars, maintVars, orchRest, mastVars, cmdVars,
                      commsVars>>

TickTorpedoes(dt) == \E k \in {tick_kinematics(dt)} : TickTorpedoesAt(k, dt)

\* The smallest id no torpedo in the water carries.
FreshId == CHOOSE i \in 1..(Len(torps) + 1) :
               /\ \A j \in 1..Len(torps) : torps[j].id # i
               /\ \A h \in 1..(i - 1) : \E j \in 1..Len(torps) : torps[j].id = h

\* weapons.test_fire: a torpedo is built at ownship's position without any
\* interlock, on the payload's bearing and enable_range.
CmdTestFire(brg, enable) ==
    /\ Len(torps) < MaxTorps
    /\ torps' = Append(torps,
                       [id |-> FreshId, x |-> kin["ownship"].x, y |-> kin["ownship"].y,
                        heading |-> brg % 360, speed |-> torpedo_speed, armed |-> FALSE,
                        enable_range_m |-> enable, run_time |-> 0,
                        max_run_time |-> test_max_run_time, side |-> Side("ownship"),
                        shooter |-> "ownship"])
    /\ world_torpedoes' = world_torpedoes + 1
    /\ ret' = "None"
    /\ op' = "weapons.test_fire"
    /\ UNCHANGED <<tubes, torpedoes_stored, captain_consent, weaponEnv, nonWeapon_but_torps>>

\* The record try_launch_torpedo_quick builds for a ship: at the ship's
\* position, on the given bearing, with TorpedoDef's values.
QuickTorpedo(s, k, brg) ==
    [id |-> 1, x |-> k.x, y |-> k.y, heading |-> brg % 360, speed |-> torpedo_speed,
     armed |-> FALSE, enable_range_m |-> enable_range_default, run_time |-> 0,
     max_run_time |-> test_max_run_time, side |-> Side(s), shooter |-> s]

\* Where the RED ship lies east of a stopped ownship, and the bearings and
\* enable ranges of the test-fire payloads.
RedStartX == {150, 3000}
TestFirePayloads == {[bearing |-> 90, enable_range |-> 100],
                     [bearing |-> 90, enable_range |-> enable_range_default]}
DtTorpedo == {2 * SecMs}

\* A stopped ownship with the RED ship to its east; no torpedo in the water,
\* or the one the distant RED ship has launched toward ownship.
InitTorpedoWorld ==
    /\ InitWeapons
    /\ InitPower
    /\ \E rx \in RedStartX :
          /\ kin = [s \in ShipIds |->
                       IF s = "ownship" THEN [Own0 EXCEPT !.speed = 0]
                       ELSE [Red0 EXCEPT !.x = rx]]
          /\ torps \in {<<>>} \cup
                 {<<QuickTorpedo(s, [Red0 EXCEPT !.x = rx], 270)>> :
                      s \in {r \in RedIds : rx >= enable_range_default}}
    /\ ordered = [Ordered0 EXCEPT !.speed = 0]
    /\ rudder_ok = TRUE
    /\ ballast_ok = TRUE
    /\ turn_rate_max = turn_rate_default
    /\ pump_fwd = FALSE
    /\ pump_aft = FALSE
    /\ InitPing
    /\ InitTasks
    /\ alloc_req = NoPayload
    /\ red_damage = NoDamage
    /\ flooding_rate = 0
    /\ fuze = <<>>
    /\ blasts = <<>>
    /\ InitComms
    /\ op = "init"
    /\ ret = "None"
    /\ InitNoOrch
    /\ enemy_static = TRUE
    /\ task_crew = "helm"

InitTorpedo == InitTorpedoWorld /\ depth_charges = <<>>

NextTorpedo ==
    \/ \E dt \in DtTorpedo : TickTorpedoes(dt)
    \/ \E p \in TestFirePayloads : CmdTestFire(p.bearing, p.enable_range)

SpecTorpedo == InitTorpedo /\ [][NextTorpedo]_vars

\* The torpedoes stay on the east-west line through the ships, on which
\* bearing and hypot are exact.
TorpedoesOnLine ==
    \A i \in 1..Len(torps) : torps[i].y = 0 /\ torps[i].heading \in {90, 270}

\* What a detonation leaves of the target's damage: hull + 0.5 up to 1.0,
\* flooding_rate + 2 (up to 10.0 when capped is set).
C32_Hit(f, capped) ==
    /\ f.outcome = "detonated"
    /\ f.target \in f.near
    /\ f.removed
    /\ AllDamage'[f.target].hull >= Min(100, AllDamage[f.target].hull + hull_hit)
    /\ AllDamage'[f.target].flooding_rate
           >= IF capped THEN Min(flooding_max, AllDamage[f.target].flooding_rate + flooding_hit)
              ELSE AllDamage[f.target].flooding_rate + flooding_hit

\* C32: an armed torpedo within 30 m of a ship of a different side at a
\* torpedo step detonates on that step: the ship's hull damage rises by 0.5
\* (capped at 1.0), its flooding_rate by 2, and the torpedo is removed.
C32_ArmedNearDetonates ==
    [][op' = "tick" =>
          \A i \in 1..Len(fuze') :
              (fuze'[i].armed /\ fuze'[i].near # {}) => C32_Hit(fuze'[i], FALSE)]_vars

\* C32, amended: an armed torpedo within 30 m of a ship of a different side
\* which the post-arm safety does not destroy on that step (it is 200 m or
\* more from ownship, or has run for 3 s at most) detonates on that step:
\* the ship's hull damage rises by 0.5 (capped at 1.0), its flooding_rate by
\* 2 (capped at 10.0), and the torpedo is removed.
C32_ArmedNearDetonatesUnlessSafety ==
    [][op' = "tick" =>
          \A i \in 1..Len(fuze') :
              (/\ fuze'[i].armed
               /\ fuze'[i].near # {}
               /\ ~(fuze'[i].own_rng < safety_range_m /\ fuze'[i].run_time > safety_run_time))
                  => C32_Hit(fuze'[i], TRUE)]_vars

\* A torpedo has detonated against the RED ship at the last tick.
C32_Witness ==
    /\ op = "tick"
    /\ \E i \in 1..Len(fuze) :
          /\ fuze[i].outcome = "detonated"
          /\ fuze[i].target \in RedIds
          /\ red_damage[fuze[i].target].hull >= hull_hit

DepthCharge(s, k, ox, target) ==
    [id |-> 1, x |-> k.x + ox, y |-> k.y, depth |-> Max(0, k.depth \div DepthU),
     target_depth |-> Max(15, target), side |-> Side(s), exploded |-> FALSE, hits |-> 0]

\* Target depths a sinking charge meets and steps over, and the offset that
\* brings a charge of the near RED ship within blast range of ownship.
DcTargets == {145, 150}
DcOffsets == {0 - 100}

\* The torpedo worlds, without or with a charge the near RED ship dropped.
InitWater ==
    /\ InitTorpedoWorld
    /\ depth_charges \in {<<>>} \cup
           {<<DepthCharge(s, kin[s], ox, t)>> :
                s \in {r \in RedIds : kin[r].x < enable_range_default},
                ox \in DcOffsets, t \in DcTargets}

\* A stopped ownship and a static enemy stay where they are.
ShipsAtRest == \A dt \in DtTorpedo : tick_kinematics(dt) = kin

\* The tick of ships at rest.
TickWater == \E dt \in DtTorpedo : TickTorpedoesAt(kin, dt)

\* The short tick is explored while only charges are in the water.
DtCharge == {SecMs \div 5}

\* Ticks, test torpedoes fired into empty water, and a database that starts
\* or stops refusing writes.
NextWater ==
    \/ \E dt \in DtTorpedo : TickTorpedoes(dt)
    \/ \E dt \in DtCharge : torps = <<>> /\ TickTorpedoes(dt)
    \/ \E ok \in BOOLEAN : StorageTurns(ok)
    \/ \E p \in TestFirePayloads :
          /\ torps = <<>>
          /\ depth_charges = <<>>
          /\ CmdTestFire(p.bearing, p.enable_range)

\* Ticks keep coming: run() calls tick at every period.
SpecWater == InitWater /\ [][NextWater]_vars /\ WF_vars(TickWater)

\* C34: every torpedo and every depth charge added to the world is eventually
\* removed from it under continued ticks, and a depth charge applies its
\* damage at most once.
C34_EventuallyRemoved ==
    /\ (torps # <<>>) ~> (torps = <<>>)
    /\ (depth_charges # <<>>) ~> (depth_charges = <<>>)
    /\ [](\A i \in 1..Len(blasts) : blasts[i].hits <= 1)

\* The same of the runs in which the database takes every write.
C34_RemovedWhileStored == <>(~storage_ok) \/ C34_EventuallyRemoved

\* ------------------------------------------------------------------- C35
\* The status flag of each ownship system a maintenance task can touch.
system_ok(k) ==
    CASE k = "rudder" -> rudder_ok
      [] k = "ballast" -> ballast_ok
      [] k = "sonar" -> sonar_ok
      [] k = "tubes" -> tubes_ok

\* Engineering power taken away and given back, and ticks that let the
\* neglected systems wear down between two looks.
WearPayloads ==
    {[k \in Stations |-> IF k = "engineering" THEN <<v>> ELSE Absent] : v \in {0, power_default}}
DtWear == {26 * SecMs}

NextWear ==
    \/ \E dt \in DtWear :
           \E ch \in SpawnChoices("helm"), cs \in SpawnChoices("sonar"),
              cw \in SpawnChoices("weapons"), ce \in SpawnChoices("engineering") :
               TickTasks(dt, [s \in Stations |->
                                 CASE s = "helm" -> ch [] s = "sonar" -> cs
                                   [] s = "weapons" -> cw [] s = "engineering" -> ce])
    \/ \E d \in WearPayloads : CmdPowerAllocate(d)

SpecWear == InitCrews /\ [][NextWear]_vars

\* C35: at the end of every tick, a system whose maintenance level is at
\* most 0.2 has its status flag false, the ticks in which a task escalation
\* or completion changed the level included.
C35_LowLevelNotOk ==
    op = "tick" => \A k \in Systems : levels[k] <= 200 => ~system_ok(k)

\* ------------------------------------------------------------------- C36
\* mission_brief["comms_schedule"] of __init__: the time and the message.
comms_schedule == <<[at_s |-> 120 * SecMs, msg |-> "FLASH"], [at_s |-> 300 * SecMs, msg |-> "INFO"]>>
radio_depth == 20 * DepthU

\* The next message of the schedule is due at simulated time t.
comms_due(t) ==
    /\ delivered_comms_idx + 1 >= 0
    /\ delivered_comms_idx + 1 < Len(comms_schedule)
    /\ t >= comms_schedule[delivered_comms_idx + 2].at_s

\* _handle_captain_comms(dt) with ownship at depth z
handle_captain_comms(z, dt) ==
    IF z <= radio_depth /\ radio_raised /\ comms_due(sim_time_s + dt)
    THEN [sim_time_s |-> sim_time_s + dt,
          captain_comms |-> Append(captain_comms, comms_schedule[delivered_comms_idx + 2].msg),
          delivered_comms_idx |-> delivered_comms_idx + 1]
    ELSE [sim_time_s |-> sim_time_s + dt, captain_comms |-> captain_comms,
          delivered_comms_idx |-> delivered_comms_idx]

\* The end of a tick: the comms handler is the tick's last call, reached by
\* a tick that has not raised.
tick_comms(z, dt) ==
    IF TickOutcome = "None" THEN handle_captain_comms(z, dt)
    ELSE [sim_time_s |-> sim_time_s, captain_comms |-> captain_comms,
          delivered_comms_idx |-> delivered_comms_idx]

\* The simulated time is followed up to MaxElapsed.
MaxElapsed == 360000

\* A tick of the ship at rest on its way to the ordered depth.
TickComms(dt) ==
    /\ elapsed < MaxElapsed
    /\ \E k \in {tick_kinematics(dt)} :
       \E r \in {tick_comms(k["ownship"].depth, dt)} :
          /\ kin' = k
          /\ sim_time_s' = r.sim_time_s
          /\ captain_comms' = r.captain_comms
          /\ delivered_comms_idx' = r.delivered_comms_idx
    /\ elapsed' = elapsed + dt
    /\ ret' = TickOutcome
    /\ op' = "tick"
    /\ UNCHANGED <<ordered, helmEnv, weaponVars, weaponEnv, powerVars, reqVars, configVars,
                   pingVars, eventVars, taskVars, maintVars, orchRest, mastVars, cmdVars,
                   torps, red_damage, flooding_rate, fuze, depth_charges, blasts>>

\* Orders for radio depth and back down.
CommsPayloads ==
    {[heading |-> Absent, speed |-> Absent, depth |-> <<z>>] : z \in {10 * DepthU, 100 * DepthU}}
DtComms == {60 * SecMs}

NextComms ==
    \/ \E dt \in DtComms : TickComms(dt)
    \/ \E d \in CommsPayloads : CmdHelmOrder(d)
    \/ \E b \in BOOLEAN : CmdMastRaise("radio", b)

SpecComms == InitTorpedo /\ [][NextComms]_vars

\* C36: a tick that ends with ownship at 20 m or less, the radio mast raised
\* and the simulated time at or past the time of the earliest undelivered
\* message appends exactly that message to the captain comms; every other
\* tick and every command leaves the captain comms as they are.
C36_DeliveredWhenDue ==
    [][IF op' = "tick" /\ kin'["ownship"].depth <= radio_depth /\ radio_raised'
             /\ comms_due(elapsed')
       THEN /\ captain_comms' =
                  Append(captain_comms, comms_schedule[delivered_comms_idx + 2].msg)
            /\ delivered_comms_idx' = delivered_comms_idx + 1
       ELSE captain_comms' = captain_comms /\ delivered_comms_idx' = delivered_comms_idx]_vars

\* ------------------------------------------------------------------- C37
\* C37: with require_captain_consent on, weapons.fire adds a torpedo to the
\* world only if the captain's consent is given at that moment; without it
\* the command returns "Captain consent required" and leaves the tubes, the
\* inventory and the world's torpedoes as they are.
C37_ConsentGate ==
    [][(require_captain_consent /\ op' = "weapons.fire") =>
          /\ world_torpedoes' # world_torpedoes => captain_consent
          /\ ~captain_consent =>
                /\ ret' = "Captain consent required"
                /\ tubes' = tubes
                /\ torpedoes_stored' = torpedoes_stored
                /\ world_torpedoes' = world_torpedoes]_vars

\* A fire command was refused with a loaded tube whose doors are open.
C37_Witness ==
    /\ op = "weapons.fire"
    /\ ret = "Captain consent required"
    /\ \E i \in TubeIdx : own_tubes[i].state = "DoorsOpen" /\ own_tubes[i].weapon

\* ------------------------------------------------------------------- C38
\* The ship engine answers with a quick launch.
FireReplies == {r \in ShipReplies : r.tool = "fire_torpedo"}
DtInventory == {45 * SecMs}

\* Ownship's tube drill and the RED ships' jobs, without a restart.
NextInventory ==
    \/ \E i \in TubeArg : CmdTubeLoad(i)
    \/ \E i \in TubeArg : CmdTubeFlood(i)
    \/ \E i \in TubeArg, o \in BOOLEAN : CmdTubeDoors(i, o)
    \/ \E i \in TubeArg : CmdFire(i)
    \/ CmdCaptainConsent(TRUE)
    \/ \E dt \in DtInventory : TickTubes(dt, TRUE, "task")
    \/ TickOrch(10 * SecMs, [s \in RedIds |-> FALSE])
    \/ \E i \in 1..MaxJobs : ShipJobStart(i)
    \/ \E i \in 1..MaxJobs, r \in FireReplies : ShipJobReply(i, r)

SpecInventory == InitFallback /\ [][NextInventory]_vars

\* The torpedoes a ship has left: in store and in its tubes.
held(s) == Cardinality({i \in TubeIdx : tubes[s][i].weapon})
aboard(s) == torpedoes_stored[s] + held(s)
RECURSIVE fleet_aboard(_)
fleet_aboard(S) ==
    IF S = {} THEN 0 ELSE LET s == CHOOSE x \in S : TRUE IN aboard(s) + fleet_aboard(S \ {s})

\* C38: without a restart, torpedoes_stored of every ship stays at 0 or
\* above, a load with torpedoes_stored at 0 is rejected, and every step keeps
\* torpedoes_stored + the ship's tubes holding a weapon + the torpedoes the
\* ship has launched: no ship gains a torpedo, and what the ships lose is
\* what enters the world.
C38_Inventory ==
    [][/\ \A s \in ShipIds : torpedoes_stored'[s] >= 0
       /\ (op' = "weapons.tube.load" /\ torpedoes_stored["ownship"] = 0) =>
              ret' = "Cannot load" /\ tubes' = tubes
       /\ \A s \in ShipIds : aboard(s)' <= aboard(s)
       /\ fleet_aboard(ShipIds)' + world_torpedoes' = fleet_aboard(ShipIds) + world_torpedoes]_vars

\* ------------------------------------------------------------------- C39
\* The task slice with the draws of the crew's stations that repeat an id.
NextTaskIds ==
    \/ \E dt \in DtTasks :
           \E ch \in SpawnChoices("helm") \cup RepeatChoices("helm"),
              cs \in SpawnChoices("sonar"),
              cw \in SpawnChoices("weapons") \cup RepeatChoices("weapons"),
              ce \in SpawnChoices("engineering") :
               TickTasks(dt, [s \in Stations |->
                                 CASE s = "helm" -> ch [] s = "sonar" -> cs
                                   [] s = "weapons" -> cw [] s = "engineering" -> ce])
    \/ \E d \in StartPayloads :
           \E c \in SpawnChoices(d.station) : CmdTaskStart(d.station, d.task_id, c)

SpecTaskIds == InitCrews /\ [][NextTaskIds]_vars

\* The started tasks of a station.
started_tasks(s) == {i \in 1..Len(active_tasks[s]) : active_tasks[s][i].started}

\* C39: every station has at most one started task, and the progress of a
\* task rises in a tick only if the task was started.
C39_OneStarted ==
    /\ [](\A s \in Stations : Cardinality(started_tasks(s)) <= 1)
    /\ [][op' = "tick" =>
             \A s \in Stations : \A i \in 1..Len(active_tasks[s]) :
                \A j \in 1..Len(active_tasks'[s]) :
                   (/\ active_tasks'[s][j].uid = active_tasks[s][i].uid
                    /\ active_tasks'[s][j].progress > active_tasks[s][i].progress)
                      => active_tasks[s][i].started]_vars

\* ------------------------------------------------------------------- C40
\* C40: a station.task.start answered "Unknown task" (its task_id is the id
\* of no task of the station) leaves every station's task list, started
\* flags included, as it was.
C40_UnknownTaskKeeps ==
    [][(op' = "station.task.start" /\ ret' = "Unknown task")
           => active_tasks' = active_tasks]_vars
====
